---- MODULE Spec2Model ----
(***************************************************************************)
(* The tabular data access layer of the parsers directory: the relational  *)
(* reader (sqlite-parser), the analytics-engine reader (duckdb-parser,     *)
(* parquet-parser) and the sessions they open, the sheet names read from   *)
(* the ZIP container of a workbook, and the dispatcher of index.ts, as a   *)
(* state machine; with them the watchers and the listing cache of the      *)
(* files router of agents.ts.                                              *)
(*                                                                         *)
(* Text is a sequence of one-character strings, so that trimming, case     *)
(* folding, substring and word-boundary tests are computed character by    *)
(* character as the JavaScript string operations compute them.             *)
(***************************************************************************)
EXTENDS Integers, Sequences, FiniteSets, TLC

VARIABLES catalog, declared, nrows, calls, open

\* the module state of the files router of agents.ts, the subscriptions and
\* listAll calls it serves, the directory on disk and the clock
VARIABLES activeWatchers, watchers, debounceTimers, fileListCache, subscriptions, lists,
          disk, clock, invalidated

fileVars ==
  <<activeWatchers, watchers, debounceTimers, fileListCache, subscriptions, lists,
    disk, clock, invalidated>>

parserVars == <<catalog, declared, nrows, calls, open>>

vars == <<catalog, declared, nrows, calls, open, fileVars>>

(***************************************************************************)
(* Bounds of the model.                                                    *)
(***************************************************************************)
MaxRows == 5
MaxLimit == 3
MaxOffset == 4

\* subscribers of watchChanges, callers of listAll, changes of the directory,
\* and the clock in milliseconds, advanced TickMs at a time
MaxSubscribers == 3
MaxLists == 2
MaxChanges == 2
TickMs == 500
MaxClock == 1500

(***************************************************************************)
(* The files router at module load: the maps are empty.                    *)
(***************************************************************************)
ProjectPath == "/proj"
ProjectPaths == {ProjectPath}

SubIds == 1..MaxSubscribers
ListIds == 1..MaxLists

NoWatcher == [watcher |-> 0, refCount |-> 0]
\* a map entry is the set of the one value of the key, empty without the key
Absent == {}
Get(map, key) == CHOOSE value \in map[key] : TRUE
NoSubscription == [state |-> "none", projectPath |-> "", watcher |-> 0]
IdleList ==
  [pc |-> "idle", projectPath |-> "", now |-> 0, startedAfter |-> 0,
   entries |-> 0, result |-> 0, listed |-> FALSE]

FilesStart ==
  /\ activeWatchers = [path \in ProjectPaths |-> NoWatcher]
  /\ watchers = [w \in SubIds |-> "unused"]
  /\ debounceTimers = [path \in ProjectPaths |-> Absent]
  /\ fileListCache = [path \in ProjectPaths |-> Absent]
  /\ subscriptions = [s \in SubIds |-> NoSubscription]
  /\ lists = [l \in ListIds |-> IdleList]
  /\ disk = [path \in ProjectPaths |-> 0]
  /\ clock = 0
  /\ invalidated = [path \in ProjectPaths |-> 0]

(***************************************************************************)
(* JavaScript string operations.                                           *)
(***************************************************************************)
LowerLetters == <<"a", "b", "c", "d", "e", "f", "g", "h", "i", "j", "k", "l", "m", "n", "o", "p", "q", "r", "s", "t", "u", "v", "w", "x", "y", "z">>
UpperLetters == <<"A", "B", "C", "D", "E", "F", "G", "H", "I", "J", "K", "L", "M", "N", "O", "P", "Q", "R", "S", "T", "U", "V", "W", "X", "Y", "Z">>
DigitChars == <<"0", "1", "2", "3", "4", "5", "6", "7", "8", "9">>

Range(s) == {s[i] : i \in 1..Len(s)}

LowerSet == Range(LowerLetters)
UpperSet == Range(UpperLetters)
DigitSet == Range(DigitChars)

IsLower(ch) == ch \in LowerSet
IsUpper(ch) == ch \in UpperSet
IsDigit(ch) == ch \in DigitSet

UpperOf == [ch \in LowerSet |-> UpperLetters[CHOOSE i \in 1..26 : LowerLetters[i] = ch]]

\* String.prototype.toUpperCase on one ASCII character
UpperChar(ch) == IF IsLower(ch) THEN UpperOf[ch] ELSE ch

toUpperCase(s) == [i \in 1..Len(s) |-> UpperChar(s[i])]

LowerOf == [ch \in UpperSet |-> LowerLetters[CHOOSE i \in 1..26 : UpperLetters[i] = ch]]

\* String.prototype.toLowerCase
toLowerCase(s) == [i \in 1..Len(s) |-> IF IsUpper(s[i]) THEN LowerOf[s[i]] ELSE s[i]]

IsSpace(ch) == ch = " "

RECURSIVE trimStart(_)
trimStart(s) ==
  IF s # <<>> /\ IsSpace(Head(s)) THEN trimStart(Tail(s)) ELSE s

RECURSIVE trimEnd(_)
trimEnd(s) ==
  IF s # <<>> /\ IsSpace(s[Len(s)]) THEN trimEnd(SubSeq(s, 1, Len(s) - 1)) ELSE s

trim(s) == trimEnd(trimStart(s))

startsWith(s, prefix) ==
  /\ Len(s) >= Len(prefix)
  /\ SubSeq(s, 1, Len(prefix)) = prefix

matchAt(s, i, sub) ==
  /\ i >= 1
  /\ i + Len(sub) - 1 <= Len(s)
  /\ SubSeq(s, i, i + Len(sub) - 1) = sub

includes(s, sub) == \E i \in 1..(Len(s) + 1) : matchAt(s, i, sub)

\* String(n) / template interpolation of a non-negative integer
RECURSIVE numberToString(_)
numberToString(n) ==
  IF n < 10
    THEN <<DigitChars[n + 1]>>
    ELSE numberToString(n \div 10) \o <<DigitChars[(n % 10) + 1]>>

\* the regular-expression class \w
IsWordChar(ch) == IsLower(ch) \/ IsUpper(ch) \/ IsDigit(ch) \/ ch = "_"

\* the assertion \b at the gap in front of position p (1..Len(s)+1)
IsWordBoundary(s, p) ==
  LET before == p - 1 >= 1 /\ IsWordChar(s[p - 1])
      after == p <= Len(s) /\ IsWordChar(s[p])
  IN  before # after

\* new RegExp(`\\b${keyword}\\b`, "i").test(s)
regexWordTest(keyword, s) ==
  \E i \in 1..Len(s) :
    /\ i + Len(keyword) - 1 <= Len(s)
    /\ IsWordBoundary(s, i)
    /\ \A j \in 1..Len(keyword) : UpperChar(s[i + j - 1]) = UpperChar(keyword[j])
    /\ IsWordBoundary(s, i + Len(keyword))

\* the same test with the word-boundary assertions left out
regexWordTestNoBoundary(keyword, s) ==
  \E i \in 1..Len(s) :
    /\ i + Len(keyword) - 1 <= Len(s)
    /\ \A j \in 1..Len(keyword) : UpperChar(s[i + j - 1]) = UpperChar(keyword[j])

(***************************************************************************)
(* sqlite-parser: pure helpers.                                            *)
(***************************************************************************)
KwSelect == <<"S", "E", "L", "E", "C", "T">>
KwLimit == <<"L", "I", "M", "I", "T">>

dangerousKeywords ==
  << <<"I", "N", "S", "E", "R", "T">>, <<"U", "P", "D", "A", "T", "E">>, <<"D", "E", "L", "E", "T", "E">>, <<"D", "R", "O", "P">>, <<"C", "R", "E", "A", "T", "E">>, <<"A", "L", "T", "E", "R">>,
     <<"T", "R", "U", "N", "C", "A", "T", "E">>, <<"R", "E", "P", "L", "A", "C", "E">>, <<"A", "T", "T", "A", "C", "H">>, <<"D", "E", "T", "A", "C", "H">>, <<"P", "R", "A", "G", "M", "A">> >>

NoError == "none"
OnlySelectError == "Only SELECT queries are allowed"
ForbiddenKeywordError == "Query contains forbidden keyword"
TableNotFoundError == "Table not found"
EngineError == "engine error"

\* validateSqlQuery with the keywords matched anywhere, not as whole words
validateSqlQueryNoBoundary(sql) ==
  LET trimmedSql == toUpperCase(trim(sql))
  IN  IF ~startsWith(trimmedSql, KwSelect)
        THEN OnlySelectError
        ELSE IF \E k \in 1..Len(dangerousKeywords) :
                  regexWordTestNoBoundary(dangerousKeywords[k], sql)
               THEN ForbiddenKeywordError
               ELSE NoError

\* validateSqlQuery: the error it throws, or NoError when it returns
validateSqlQuery(sql) ==
  LET trimmedSql == toUpperCase(trim(sql))
  IN  IF ~startsWith(trimmedSql, KwSelect)
        THEN OnlySelectError
        ELSE IF \E k \in 1..Len(dangerousKeywords) :
                  regexWordTest(dangerousKeywords[k], sql)
               THEN ForbiddenKeywordError
               ELSE NoError

\* escapeTableName with the embedded quotes left single
escapeTableNameNoDoubling(tableName) == <<"\"">> \o tableName \o <<"\"">>

RECURSIVE doubleQuotes(_)
doubleQuotes(s) ==
  IF s = <<>>
    THEN <<>>
    ELSE (IF Head(s) = "\"" THEN <<"\"", "\"">> ELSE <<Head(s)>>)
           \o doubleQuotes(Tail(s))

\* escapeTableName: `"${tableName.replace(/"/g, '""')}"`
escapeTableName(tableName) == <<"\"">> \o doubleQuotes(tableName) \o <<"\"">>

\* the statement text querySqlite prepares: the trimmed text, with
\* " LIMIT <limit>" appended when the letters LIMIT occur nowhere in it
ensureLimit(sql, limit) ==
  LET querySql == trim(sql)
  IN  IF /\ ~includes(toUpperCase(querySql), KwLimit)
         /\ startsWith(toUpperCase(querySql), KwSelect)
        THEN querySql \o <<" ", "L", "I", "M", "I", "T", " ">> \o numberToString(limit)
        ELSE querySql

TypeKeywordsNumber == { <<"I", "N", "T">>, <<"R", "E", "A", "L">>, <<"F", "L", "O", "A", "T">>, <<"D", "O", "U", "B", "L", "E">>, <<"N", "U", "M", "E", "R", "I", "C">>, <<"D", "E", "C", "I", "M", "A", "L">> }
TypeKeywordsDate == { <<"D", "A", "T", "E">>, <<"T", "I", "M", "E">>, <<"T", "I", "M", "E", "S", "T", "A", "M", "P">> }
TypeKeywordsText == { <<"T", "E", "X", "T">>, <<"C", "H", "A", "R">>, <<"C", "L", "O", "B">>, <<"V", "A", "R", "C", "H", "A", "R">> }

\* mapSqliteType; a null declared type is the empty text
mapSqliteType(sqliteType) ==
  LET upperType == toUpperCase(sqliteType)
  IN  IF sqliteType = <<>> THEN "mixed"
      ELSE IF \E k \in TypeKeywordsNumber : includes(upperType, k) THEN "number"
      ELSE IF includes(upperType, <<"B", "O", "O", "L">>) THEN "boolean"
      ELSE IF \E k \in TypeKeywordsDate : includes(upperType, k) THEN "date"
      ELSE IF \E k \in TypeKeywordsText : includes(upperType, k) THEN "string"
      ELSE IF includes(upperType, <<"B", "L", "O", "B">>) THEN "string"
      ELSE "mixed"

\* inferTypeFromValue on a tagged value [t |-> typeof, v |-> value]
inferTypeFromValue(value) ==
  IF value.t \in {"null", "undefined"} THEN "null"
  ELSE IF value.t = "boolean" THEN "boolean"
  ELSE IF value.t = "number" THEN "number"
  ELSE IF value.t = "string"
    THEN IF /\ Len(value.v) >= 10
            /\ \A i \in {1, 2, 3, 4, 6, 7, 9, 10} : IsDigit(value.v[i])
            /\ value.v[5] = "-" /\ value.v[8] = "-"
           THEN "date"
           ELSE "string"
  ELSE "mixed"

(***************************************************************************)
(* The database file and the better-sqlite3 engine.                        *)
(***************************************************************************)
NameT == <<"t">>
NameLimits == <<"l", "i", "m", "i", "t", "s">>
NameQuoted == <<"a", "\"", "b">>
NameSequence == <<"s", "q", "l", "i", "t", "e", "_", "s", "e", "q", "u", "e", "n", "c", "e">>
NameView == <<"v">>
NameMissing == <<"n", "o", "p", "e">>
NameInjection == <<"a", "\"", ";", " ", "D", "R", "O", "P", " ", "T", "A", "B", "L", "E", " ", "x", ";", " ", "-", "-">>

TableNames == {NameT, NameLimits, NameQuoted, NameSequence, NameView, NameMissing, NameInjection}

\* a file with user tables, a system table and a view; and an empty file
FullCatalog ==
  { [type |-> "table", name |-> NameT],
    [type |-> "table", name |-> NameLimits],
    [type |-> "table", name |-> NameQuoted],
    [type |-> "table", name |-> NameSequence],
    [type |-> "view", name |-> NameView] }

Catalogs == {FullCatalog, {}}

\* the declared columns of every table: t(id, name); declared is the type the
\* file declares for id
DeclaredColumns ==
  << [name |-> "id", type |-> declared], [name |-> "name", type |-> <<"T", "E", "X", "T">>] >>

\* the number of rows of an object of the file; table t has nrows rows
RowCountOf(name) == IF name = NameT THEN nrows ELSE 1

SqliteRow(i) == [id |-> [t |-> "number", v |-> i]]

\* the rows of an object in scan order
StoredRows(name) == [i \in 1..RowCountOf(name) |-> SqliteRow(i)]

AsciiOrder == <<" ", "\"", "'", "(", ")", "*", "-", ";", "=", "0", "1", "2", "3", "4", "5", "6", "7", "8", "9", "A", "B", "C", "D", "E", "F", "G", "H", "I", "J", "K", "L", "M", "N", "O", "P", "Q", "R", "S", "T", "U", "V", "W", "X", "Y", "Z", "_", "a", "b", "c", "d", "e", "f", "g", "h", "i", "j", "k", "l", "m", "n", "o", "p", "q", "r", "s", "t", "u", "v", "w", "x", "y", "z">>

CharCode(ch) == CHOOSE i \in 1..Len(AsciiOrder) : AsciiOrder[i] = ch

\* the BINARY collation of ORDER BY name
RECURSIVE TextLess(_, _)
TextLess(a, b) ==
  IF b = <<>> THEN FALSE
  ELSE IF a = <<>> THEN TRUE
  ELSE IF Head(a) # Head(b) THEN CharCode(Head(a)) < CharCode(Head(b))
  ELSE TextLess(Tail(a), Tail(b))

RECURSIVE SortTexts(_)
SortTexts(S) ==
  IF S = {}
    THEN <<>>
    ELSE LET m == CHOOSE x \in S : \A y \in S \ {x} : TextLess(x, y)
         IN  <<m>> \o SortTexts(S \ {m})

\* name LIKE 'sqlite_%': six letters compared without case, then any one
\* character, then anything
LikeSqlitePrefix(name) ==
  /\ Len(name) >= 7
  /\ toUpperCase(SubSeq(name, 1, 6)) = <<"S", "Q", "L", "I", "T", "E">>

\* SELECT name FROM sqlite_master WHERE type='table' AND name = ?
SqliteMasterLookup(name) ==
  \E e \in catalog : e.type = "table" /\ e.name = name

\* SELECT name FROM sqlite_master WHERE type='table'
\*   AND name NOT LIKE 'sqlite_%' ORDER BY name
SqliteMasterList ==
  SortTexts({e.name : e \in {x \in catalog : x.type = "table" /\ ~LikeSqlitePrefix(x.name)}})

Malformed == <<"malformed">>

RECURSIVE undoubleQuotes(_)
undoubleQuotes(s) ==
  IF s = <<>> THEN <<>>
  ELSE IF Head(s) # "\"" THEN
         LET rest == undoubleQuotes(Tail(s))
         IN  IF rest = Malformed THEN Malformed ELSE <<Head(s)>> \o rest
  ELSE IF Len(s) >= 2 /\ s[2] = "\"" THEN
         LET rest == undoubleQuotes(Tail(Tail(s)))
         IN  IF rest = Malformed THEN Malformed ELSE <<"\"">> \o rest
  ELSE Malformed

\* how the engine reads a double-quoted identifier: the name it denotes,
\* or Malformed when the text is not one quoted identifier
ParseQuotedIdentifier(ident) ==
  IF Len(ident) >= 2 /\ ident[1] = "\"" /\ ident[Len(ident)] = "\""
    THEN undoubleQuotes(SubSeq(ident, 2, Len(ident) - 1))
    ELSE Malformed

ObjectExists(name) == \E e \in catalog : e.name = name

Min(a, b) == IF a <= b THEN a ELSE b
Max(a, b) == IF a >= b THEN a ELSE b

\* the engine's LIMIT limit OFFSET offset over a row sequence
LimitOffset(rows, limit, offset) ==
  SubSeq(rows, offset + 1, Min(offset + limit, Len(rows)))

(***************************************************************************)
(* Sessions and the trace of a call.                                       *)
(***************************************************************************)
Event(e, db, kind, text, ident, name) ==
  [e |-> e, db |-> db, kind |-> kind, text |-> text, ident |-> ident, name |-> name]

OpenEvent(db) == Event("open", db, "", <<>>, <<>>, <<>>)
CloseEvent(db) == Event("close", db, "", <<>>, <<>>, <<>>)

\* a statement handed to the engine; ident is the identifier text spliced
\* into it (empty when nothing is spliced), name the table name it was made
\* from or the bound parameter
Statement(db, kind, text, ident, name) ==
  Event("prepare", db, kind, text, ident, name)

EmptyParsed == [columns |-> <<>>, rows |-> <<>>, totalRows |-> 0, truncated |-> FALSE]

Outcome(trace, error, result, list) ==
  [trace |-> trace, error |-> error, result |-> result, list |-> list]

Failed(trace, error) == Outcome(trace, error, EmptyParsed, <<>>)

(***************************************************************************)
(* sqlite-parser: the operations.  Each is synchronous, so a call is one   *)
(* step; fail names the engine interaction that throws ("none": none).     *)
(***************************************************************************)
CatalogLookupSql == <<"SELECT name FROM sqlite_master WHERE type='table' AND name = ?">>
CatalogListSql ==
  <<"SELECT name FROM sqlite_master WHERE type='table' AND name NOT LIKE 'sqlite_%' ORDER BY name">>
TableInfoSql(ident) == <<"PRAGMA table_info(">> \o ident \o <<")">>
CountSql(ident) == <<"SELECT COUNT(*) as count FROM ">> \o ident
SelectPageSql(ident) == <<"SELECT * FROM ">> \o ident \o <<" LIMIT ? OFFSET ?">>

\* validateTableName
validateTableName(db, tableName, fail) ==
  LET stmt == Statement(db, "catalog_lookup", CatalogLookupSql, <<>>, tableName)
  IN  IF fail = "lookup" THEN Failed(<<stmt>>, EngineError)
      ELSE IF ~SqliteMasterLookup(tableName) THEN Failed(<<stmt>>, TableNotFoundError)
      ELSE Outcome(<<stmt>>, NoError, EmptyParsed, <<>>)

\* getTableColumns; list holds the columns
getTableColumns(db, tableName, fail) ==
  LET ident == escapeTableName(tableName)
      stmt == Statement(db, "table_info", TableInfoSql(ident), ident, tableName)
      target == ParseQuotedIdentifier(ident)
  IN  IF fail = "table_info" \/ target = Malformed THEN Failed(<<stmt>>, EngineError)
      ELSE Outcome(<<stmt>>, NoError, EmptyParsed,
                   IF ObjectExists(target)
                     THEN [i \in 1..Len(DeclaredColumns) |->
                            [name |-> DeclaredColumns[i].name,
                             type |-> mapSqliteType(DeclaredColumns[i].type)]]
                     ELSE <<>>)

\* the try block of a call without its finally
closeOnSuccessOnly(db, body) ==
  Outcome(<<OpenEvent(db)>> \o body.trace
            \o (IF body.error = NoError THEN <<CloseEvent(db)>> ELSE <<>>),
          body.error, body.result, body.list)

\* const db = new Database(...); try { body } finally { db.close() }
tryFinallyClose(db, body) ==
  Outcome(<<OpenEvent(db)>> \o body.trace \o <<CloseEvent(db)>>,
          body.error, body.result, body.list)

\* the body of listSqliteTables
listTablesBody(db, fail) ==
  LET stmt == Statement(db, "catalog_list", CatalogListSql, <<>>, <<>>)
  IN  IF fail = "list" THEN Failed(<<stmt>>, EngineError)
      ELSE Outcome(<<stmt>>, NoError, EmptyParsed, SqliteMasterList)

\* listSqliteTables on a fresh session db
listSqliteTablesRun(db, fail) ==
  IF fail = "open" THEN Failed(<<>>, EngineError)
  ELSE tryFinallyClose(db, listTablesBody(db, fail))

\* the page query with the limit parameter not applied
pageRowsNoLimit(target, limit, offset) ==
  LimitOffset(StoredRows(target), Len(StoredRows(target)), offset)

\* the page query with its two bound parameters exchanged
pageRowsSwapped(target, limit, offset) == LimitOffset(StoredRows(target), offset, limit)

\* .prepare(`SELECT * FROM ${escapedTable} LIMIT ? OFFSET ?`).all(limit, offset)
pageRows(target, limit, offset) == LimitOffset(StoredRows(target), limit, offset)

\* the truncation test with <= for <
previewTruncatedOffByOne(offset, limit, rows, totalRows) == offset + limit <= totalRows

\* const truncated = offset + limit < totalRows
previewTruncated(offset, limit, rows, totalRows) == offset + limit < totalRows

\* the body of previewSqliteTable
previewBody(db, tableName, limit, offset, fail) ==
  LET v == validateTableName(db, tableName, fail)
  IN  IF v.error # NoError THEN v
      ELSE
      LET g == getTableColumns(db, tableName, fail)
      IN  IF g.error # NoError THEN Failed(v.trace \o g.trace, g.error)
          ELSE
          LET escapedTable == escapeTableName(tableName)
              target == ParseQuotedIdentifier(escapedTable)
              countStmt == Statement(db, "count", CountSql(escapedTable), escapedTable, tableName)
              pageStmt == Statement(db, "select_page", SelectPageSql(escapedTable),
                                    escapedTable, tableName)
              t1 == v.trace \o g.trace \o <<countStmt>>
          IN  IF fail = "count" \/ target = Malformed \/ ~ObjectExists(target)
                THEN Failed(t1, EngineError)
              ELSE IF fail = "select" THEN Failed(t1 \o <<pageStmt>>, EngineError)
              ELSE
              LET totalRows == RowCountOf(target)
                  rows == pageRows(target, limit, offset)
              IN  Outcome(t1 \o <<pageStmt>>, NoError,
                          [columns |-> g.list, rows |-> rows, totalRows |-> totalRows,
                           truncated |-> previewTruncated(offset, limit, rows, totalRows)],
                          <<>>)

\* previewSqliteTable on a fresh session db
previewSqliteTableRun(db, tableName, limit, offset, fail) ==
  IF fail = "open" THEN Failed(<<>>, EngineError)
  ELSE tryFinallyClose(db, previewBody(db, tableName, limit, offset, fail))

RECURSIVE parseNumber(_)
parseNumber(digits) ==
  IF digits = <<>>
    THEN 0
    ELSE 10 * parseNumber(SubSeq(digits, 1, Len(digits) - 1))
           + (CHOOSE d \in 0..9 : DigitChars[d + 1] = digits[Len(digits)])

SelectStarFrom == <<"S", "E", "L", "E", "C", "T", " ", "*", " ", "F", "R", "O", "M", " ">>
LimitClause == <<" ", "L", "I", "M", "I", "T", " ">>

\* the index of the first space of s, or Len(s) + 1
FirstSpace(s) ==
  IF \E i \in 1..Len(s) : s[i] = " "
    THEN CHOOSE i \in 1..Len(s) : s[i] = " " /\ \A j \in 1..(i - 1) : s[j] # " "
    ELSE Len(s) + 1

\* The engine on a caller's statement, for the statements of the form
\*   SELECT * FROM <name> [LIMIT <n>]
\* (keywords in any case); every other text is an error of the engine.
\* readable says which names can be read, rowsOf gives the rows of each.
ExecuteSelect(text, readable, rowsOf) ==
  LET rest == SubSeq(text, Len(SelectStarFrom) + 1, Len(text))
      cut == FirstSpace(rest)
      name == SubSeq(rest, 1, cut - 1)
      tail == SubSeq(rest, cut, Len(rest))
      digits == SubSeq(tail, Len(LimitClause) + 1, Len(tail))
  IN  IF \/ ~startsWith(toUpperCase(text), SelectStarFrom)
         \/ name = <<>>
         \/ \E i \in 1..Len(name) : ~IsWordChar(name[i])
         \/ name \notin readable
        THEN [error |-> EngineError, rows |-> <<>>]
      ELSE IF tail = <<>> THEN [error |-> NoError, rows |-> rowsOf[name]]
      ELSE IF /\ startsWith(toUpperCase(tail), LimitClause)
              /\ digits # <<>>
              /\ \A i \in 1..Len(digits) : IsDigit(digits[i])
        THEN [error |-> NoError, rows |-> LimitOffset(rowsOf[name], parseNumber(digits), 0)]
      ELSE [error |-> EngineError, rows |-> <<>>]

\* db.prepare(querySql).all()
SqliteExecute(text) ==
  LET readable == {e.name : e \in catalog}
  IN  ExecuteSelect(text, readable, [name \in readable |-> StoredRows(name)])

ValidateEvent(sql, verdict) == Event("validate", 0, verdict, sql, <<>>, <<>>)

\* Object.keys(rows[0]) in insertion order
ColumnKeys == <<"id">>

\* the columns querySqlite infers from the first row
inferColumns(row) ==
  [i \in 1..Len(ColumnKeys) |->
    [name |-> ColumnKeys[i], type |-> inferTypeFromValue(row[ColumnKeys[i]])]]

\* the body of querySqlite
\* a flag that is raised only past the limit
queryTruncatedStrict(rows, limit) == Len(rows) > limit

\* truncated: rows.length >= limit
queryTruncated(rows, limit) == Len(rows) >= limit

queryBody(db, sql, limit, fail) ==
  LET verdict == validateSqlQuery(sql)
      checked == ValidateEvent(sql, verdict)
  IN  IF verdict # NoError THEN Failed(<<checked>>, verdict)
      ELSE
      LET querySql == ensureLimit(sql, limit)
          stmt == Statement(db, "user_sql", querySql, <<>>, <<>>)
          run == SqliteExecute(querySql)
      IN  IF fail = "exec" \/ run.error # NoError
            THEN Failed(<<checked, stmt>>, EngineError)
          ELSE IF Len(run.rows) = 0
            THEN Outcome(<<checked, stmt>>, NoError, EmptyParsed, <<>>)
          ELSE Outcome(<<checked, stmt>>, NoError,
                       [columns |-> inferColumns(run.rows[1]), rows |-> run.rows,
                        totalRows |-> Len(run.rows),
                        truncated |-> queryTruncated(run.rows, limit)],
                       <<>>)

\* querySqlite on a fresh session db
querySqliteRun(db, sql, limit, fail) ==
  IF fail = "open" THEN Failed(<<>>, EngineError)
  ELSE tryFinallyClose(db, queryBody(db, sql, limit, fail))

\* the for loop of getSqliteSchema; list holds <<table, columns>> pairs
RECURSIVE schemaLoop(_, _, _)
schemaLoop(db, tables, fail) ==
  IF tables = <<>> THEN Outcome(<<>>, NoError, EmptyParsed, <<>>)
  ELSE LET g == getTableColumns(db, Head(tables), fail)
       IN  IF g.error # NoError THEN g
           ELSE LET rest == schemaLoop(db, Tail(tables), fail)
                IN  IF rest.error # NoError
                      THEN Failed(g.trace \o rest.trace, rest.error)
                      ELSE Outcome(g.trace \o rest.trace, NoError, EmptyParsed,
                                   <<[table |-> Head(tables), columns |-> g.list]>>
                                     \o rest.list)

\* the body of getSqliteSchema; the listing runs on a session of its own
schemaBody(db, db2, fail) ==
  LET listing == listSqliteTablesRun(db2, IF fail = "open2" THEN "open" ELSE fail)
  IN  IF listing.error # NoError THEN listing
      ELSE LET loop == schemaLoop(db, listing.list, fail)
           IN  Outcome(listing.trace \o loop.trace, loop.error, EmptyParsed, loop.list)

\* getSqliteSchema on fresh sessions db and db2
getSqliteSchemaRun(db, db2, fail) ==
  IF fail = "open" THEN Failed(<<>>, EngineError)
  ELSE tryFinallyClose(db, schemaBody(db, db2, fail))

(***************************************************************************)
(* Calls.  A slot of calls holds one call of a caller: its arguments, its  *)
(* position, the trace of what it did and what it returned or threw.       *)
(***************************************************************************)
\* how the bytes of a file were made: the kind of file, the compression
\* method and place of the workbook entry, the workbook XML
NoRecipe == [kind |-> "none", method |-> 0, layout |-> 0, xml |-> <<>>]

CallIds == {1, 2}

\* a single caller that awaits each call before the next
SingleCaller == {1}

IdleCall ==
  [op |-> "none", caller |-> "direct", fileType |-> "", pc |-> "idle", filePath |-> <<>>,
   zip |-> NoRecipe, buffer |-> <<>>, tableName |-> <<>>, sql |-> <<>>,
   limit |-> 0, offset |-> 0, fail |-> "none", db |-> 0, readFn |-> "",
   trace |-> <<>>, error |-> NoError, result |-> EmptyParsed, list |-> <<>>]

\* a slot takes one call
Idle(c) == calls[c].pc = "idle"

\* the sessions that exist: open ones and those in the trace of some other call
KnownSessions(c) ==
  open \cup UNION {{calls[d].trace[i].db : i \in 1..Len(calls[d].trace)} : d \in CallIds \ {c}}

\* one session kept for all calls: the open one is handed out again
sharedDatabase(c, k) ==
  IF open # {} THEN CHOOSE s \in open : \A x \in open : s <= x
  ELSE CHOOSE s \in 1..(Cardinality(KnownSessions(c)) + k) : s \notin KnownSessions(c)

\* new Database(...): the k-th session object not yet in existence
NewDatabase(c, k) ==
  LET free == (1..(Cardinality(KnownSessions(c)) + k)) \ KnownSessions(c)
  IN  CHOOSE s \in free : Cardinality({x \in free : x < s}) = k - 1

\* the set of open sessions after the events of a trace
RECURSIVE OpenAfter(_, _)
OpenAfter(sessions, trace) ==
  IF trace = <<>> THEN sessions
  ELSE OpenAfter(
         IF Head(trace).e = "open" THEN sessions \cup {Head(trace).db}
         ELSE IF Head(trace).e = "close" THEN sessions \ {Head(trace).db}
         ELSE sessions,
         Tail(trace))

\* a synchronous call of slot c that ran to its end with outcome r
Completed(c, started, r) ==
  /\ calls' = [calls EXCEPT ![c] =
                 [started EXCEPT !.pc = IF r.error = NoError THEN "returned" ELSE "threw",
                                 !.trace = r.trace, !.error = r.error,
                                 !.result = r.result, !.list = r.list]]
  /\ open' = OpenAfter(open, r.trace)
  /\ UNCHANGED <<catalog, declared, nrows, fileVars>>

listSqliteTables(c, fail) ==
  /\ Idle(c)
  /\ LET db == NewDatabase(c, 1)
     IN  Completed(c, [IdleCall EXCEPT !.op = "listSqliteTables", !.db = db, !.fail = fail],
                   listSqliteTablesRun(db, fail))

previewSqliteTable(c, tableName, limit, offset, fail) ==
  /\ Idle(c)
  /\ LET db == NewDatabase(c, 1)
     IN  Completed(c, [IdleCall EXCEPT !.op = "previewSqliteTable", !.db = db,
                                       !.tableName = tableName, !.limit = limit,
                                       !.offset = offset, !.fail = fail],
                   previewSqliteTableRun(db, tableName, limit, offset, fail))

querySqlite(c, sql, limit, fail) ==
  /\ Idle(c)
  /\ LET db == NewDatabase(c, 1)
     IN  Completed(c, [IdleCall EXCEPT !.op = "querySqlite", !.db = db,
                                       !.sql = sql, !.limit = limit, !.fail = fail],
                   querySqliteRun(db, sql, limit, fail))

getSqliteSchema(c, fail) ==
  /\ Idle(c)
  /\ LET db == NewDatabase(c, 1)
         db2 == NewDatabase(c, 2)
     IN  Completed(c, [IdleCall EXCEPT !.op = "getSqliteSchema", !.db = db, !.fail = fail],
                   getSqliteSchemaRun(db, db2, fail))

(***************************************************************************)
(* duckdb-parser and parquet-parser.  The operations are asynchronous: a   *)
(* call advances by one statement of the engine per step, and ok says      *)
(* whether the engine ran the statement or reported an error.              *)
(***************************************************************************)
FilePaths ==
  { <<"a", ".", "p", "a", "r", "q", "u", "e", "t">>, <<"b", ".", "x", "l", "s", "x">>, <<"c", ".", "x", "l", "s">>, <<"d", ".", "a", "r", "r", "o", "w">>, <<"e", ".", "c", "s", "v">>, <<"f", ".", "j", "s", "o", "n">>, <<"g", ".", "d", "b">>,
    <<"h", ".", "t", "x", "t">> }

\* path.extname of node:path (posix): from the last dot of the last segment of
\* the path, trailing slashes apart, to its end; empty when the segment has no
\* dot, starts at its only dot, or is ".."
extname(path) ==
  LET ends == {i \in 1..Len(path) : path[i] # "/"}
      end == CHOOSE i \in ends : \A j \in ends : j <= i
      slashes == {i \in 1..(end - 1) : path[i] = "/"}
      startPart == IF slashes = {} THEN 1
                   ELSE 1 + CHOOSE i \in slashes : \A j \in slashes : j <= i
      dots == {i \in startPart..end : path[i] = "."}
      startDot == CHOOSE i \in dots : \A j \in dots : j <= i
  IN  IF ends = {} THEN <<>>
      ELSE IF dots = {} THEN <<>>
      ELSE IF startDot = startPart THEN <<>>
      ELSE IF path[startPart] = "." /\ startDot = end /\ startDot = startPart + 1 THEN <<>>
      ELSE SubSeq(path, startDot, end)

\* DATA_EXTENSIONS of index.ts
DATA_EXTENSIONS ==
  (<<".", "c", "s", "v">> :> "csv") @@ (<<".", "t", "s", "v">> :> "csv") @@ (<<".", "j", "s", "o", "n">> :> "json") @@
  (<<".", "j", "s", "o", "n", "l">> :> "json") @@ (<<".", "d", "b">> :> "sqlite") @@ (<<".", "s", "q", "l", "i", "t", "e">> :> "sqlite") @@
  (<<".", "s", "q", "l", "i", "t", "e", "3">> :> "sqlite") @@ (<<".", "p", "a", "r", "q", "u", "e", "t">> :> "parquet") @@ (<<".", "p", "q">> :> "parquet") @@
  (<<".", "x", "l", "s", "x">> :> "excel") @@ (<<".", "x", "l", "s">> :> "excel") @@ (<<".", "a", "r", "r", "o", "w">> :> "arrow") @@
  (<<".", "f", "e", "a", "t", "h", "e", "r">> :> "arrow") @@ (<<".", "i", "p", "c">> :> "arrow")

\* the table looked up with the extension as the path spells it
detectFileTypeCaseSensitive(filePath) ==
  LET ext == extname(filePath)
  IN  IF ext \in DOMAIN DATA_EXTENSIONS THEN DATA_EXTENSIONS[ext] ELSE "unknown"

\* detectFileType of index.ts: DATA_EXTENSIONS[ext] || "unknown"
detectFileType(filePath) ==
  LET ext == toLowerCase(extname(filePath))
  IN  IF ext \in DOMAIN DATA_EXTENSIONS THEN DATA_EXTENSIONS[ext] ELSE "unknown"

\* the fileType local of the operation of index.ts that made the call; a
\* direct call of a reader has none
detectedBy(caller, filePath) ==
  IF caller = "direct" THEN "" ELSE detectFileType(filePath)

\* every extension taken for a columnar file
getDuckDBFileTypeDefaultParquet(filePath) ==
  LET ext == toLowerCase(extname(filePath))
  IN  IF ext \in {<<".", "x", "l", "s", "x">>, <<".", "x", "l", "s">>} THEN "excel"
      ELSE IF ext \in {<<".", "a", "r", "r", "o", "w">>, <<".", "f", "e", "a", "t", "h", "e", "r">>, <<".", "i", "p", "c">>} THEN "arrow"
      ELSE "parquet"

getDuckDBFileType(filePath) ==
  LET ext == toLowerCase(extname(filePath))
  IN  IF ext \in {<<".", "p", "a", "r", "q", "u", "e", "t">>, <<".", "p", "q">>} THEN "parquet"
      ELSE IF ext \in {<<".", "x", "l", "s", "x">>, <<".", "x", "l", "s">>} THEN "excel"
      ELSE IF ext \in {<<".", "a", "r", "r", "o", "w">>, <<".", "f", "e", "a", "t", "h", "e", "r">>, <<".", "i", "p", "c">>} THEN "arrow"
      ELSE "null"

\* getReadFunction: the table function of the read expression
getReadFunction(fileType) ==
  IF fileType = "excel" THEN "read_xlsx" ELSE "read_parquet"

\* the read expression queryDataFile builds
queryReadFunction(filePath) ==
  LET ext == toLowerCase(extname(filePath))
  IN  IF ext \in {<<".", "c", "s", "v">>, <<".", "t", "s", "v">>} THEN "read_csv"
      ELSE IF ext \in {<<".", "j", "s", "o", "n">>, <<".", "j", "s", "o", "n", "l">>} THEN "read_json"
      ELSE getReadFunction(getDuckDBFileType(filePath))

DuckTypeKeywordsNumber ==
  { <<"I", "N", "T">>, <<"B", "I", "G", "I", "N", "T">>, <<"S", "M", "A", "L", "L", "I", "N", "T">>, <<"T", "I", "N", "Y", "I", "N", "T">>, <<"H", "U", "G", "E", "I", "N", "T">>,
    <<"F", "L", "O", "A", "T">>, <<"D", "O", "U", "B", "L", "E">>, <<"D", "E", "C", "I", "M", "A", "L">>, <<"R", "E", "A", "L">> }

\* mapDuckDBType
mapDuckDBType(duckdbType) ==
  LET type == toUpperCase(duckdbType)
  IN  IF \E k \in DuckTypeKeywordsNumber : includes(type, k) THEN "number"
      ELSE IF includes(type, <<"B", "O", "O", "L">>) THEN "boolean"
      ELSE IF \E k \in TypeKeywordsDate : includes(type, k) THEN "date"
      ELSE "string"

\* the data file: one BIGINT column, nrows rows
DescribedColumns == << [column_name |-> "id", column_type |-> declared] >>
NativeRow(i) == [id |-> [t |-> "bigint", v |-> i]]
NativeRows == [i \in 1..nrows |-> NativeRow(i)]

\* processRow on one value
processValue(value) ==
  IF value.t = "bigint" THEN [t |-> "number", v |-> value.v]
  ELSE IF value.t = "date" THEN [t |-> "string", v |-> value.v]
  ELSE IF value.t = "buffer" THEN [t |-> "string", v |-> value.v]
  ELSE value

processRow(row) == [k \in DOMAIN row |-> processValue(row[k])]

\* the columns made from a DESCRIBE result
describeColumns(describeResult) ==
  [i \in 1..Len(describeResult) |->
    [name |-> describeResult[i].column_name,
     type |-> mapDuckDBType(describeResult[i].column_type)]]

\* the column types queryDataFile infers from the first native row
queryColumns(row) ==
  [i \in 1..Len(ColumnKeys) |->
    [name |-> ColumnKeys[i],
     type |-> IF row[ColumnKeys[i]].t = "number" THEN "number"
              ELSE IF row[ColumnKeys[i]].t = "boolean" THEN "boolean"
              ELSE IF row[ColumnKeys[i]].t = "date" THEN "date"
              ELSE "string"]]

ViewName == <<"d", "a", "t", "a">>

\* the engine on the caller's SQL, run against the view named data
DuckExecute(text) ==
  ExecuteSelect(text, {ViewName}, [name \in {ViewName} |-> NativeRows])

\* a call of slot c moves to the record next; the sessions follow its new events
Advance(c, next) ==
  /\ calls' = [calls EXCEPT ![c] = next]
  /\ open' = OpenAfter(open, SubSeq(next.trace, Len(calls[c].trace) + 1, Len(next.trace)))
  /\ UNCHANGED <<catalog, declared, nrows, fileVars>>

\* the catch block without its close
catchNoClose(call, stmt) ==
  [call EXCEPT !.pc = "threw", !.error = EngineError, !.trace = @ \o <<stmt>>]

\* catch (error) { db.close(); throw error } after the statement stmt failed
catchClose(call, stmt) ==
  [call EXCEPT !.pc = "threw", !.error = EngineError,
               !.trace = @ \o <<stmt, CloseEvent(call.db)>>]

\* a return that leaves the session open
returnNoClose(call, stmt, result) ==
  [call EXCEPT !.pc = "returned", !.result = result, !.trace = @ \o <<stmt>>]

\* db.close(); return result  after the statement stmt
closeReturn(call, stmt, result) ==
  [call EXCEPT !.pc = "returned", !.result = result,
               !.trace = @ \o <<stmt, CloseEvent(call.db)>>]

\* the statement ran: the call goes on at pc
continueAt(call, stmt, pc) == [call EXCEPT !.pc = pc, !.trace = @ \o <<stmt>>]

UnsupportedError == "Unsupported file type"

\* where a call goes once installExtensions has returned
AfterInstall(op) ==
  IF op \in {"parseDuckDBFile", "getDuckDBColumns"} THEN "describe"
  ELSE IF op = "getDuckDBRowCount" THEN "count"
  ELSE "view"

\* the start of parseDuckDBFile, getDuckDBRowCount and getDuckDBColumns, up to
\* the first await
startDuckDB(c, caller, op, filePath, limit, offset) ==
  /\ Idle(c)
  /\ LET fileType == getDuckDBFileType(filePath)
         db == NewDatabase(c, 1)
         started == [IdleCall EXCEPT !.op = op, !.caller = caller,
                                     !.fileType = detectedBy(caller, filePath),
                                     !.filePath = filePath, !.limit = limit,
                                     !.offset = offset]
     IN  IF fileType = "null"
           THEN Advance(c, [started EXCEPT !.pc = "threw", !.error = UnsupportedError])
           ELSE Advance(c, [started EXCEPT
                              !.db = db, !.readFn = getReadFunction(fileType),
                              !.trace = <<OpenEvent(db)>>,
                              !.pc = IF fileType = "excel" THEN "install"
                                     ELSE AfterInstall(op)])

parseDuckDBFile(c, filePath, limit, offset) ==
  startDuckDB(c, "direct", "parseDuckDBFile", filePath, limit, offset)
getDuckDBRowCount(c, filePath) == startDuckDB(c, "direct", "getDuckDBRowCount", filePath, 0, 0)
getDuckDBColumns(c, filePath) == startDuckDB(c, "direct", "getDuckDBColumns", filePath, 0, 0)

\* parseParquetFile up to the first await
parseParquetFile(c, limit, offset) ==
  /\ Idle(c)
  /\ LET db == NewDatabase(c, 1)
     IN  Advance(c, [IdleCall EXCEPT !.op = "parseParquetFile", !.filePath = <<"a", ".", "p", "a", "r", "q", "u", "e", "t">>,
                                     !.limit = limit, !.offset = offset, !.db = db,
                                     !.readFn = "read_parquet",
                                     !.trace = <<OpenEvent(db)>>, !.pc = "describe"])

\* queryDataFile of duckdb-parser up to the first await; caller says whether
\* it was called directly or by queryDataFile of index.ts
queryDataFile(c, caller, filePath, sql) ==
  /\ Idle(c)
  /\ LET fileType == getDuckDBFileType(filePath)
         db == NewDatabase(c, 1)
         started == [IdleCall EXCEPT !.op = "queryDataFile", !.caller = caller,
                                     !.fileType = detectedBy(caller, filePath),
                                     !.filePath = filePath, !.sql = sql]
     IN  IF queryReadFunction(filePath) = "read_parquet" /\ fileType = "null"
           THEN Advance(c, [started EXCEPT !.pc = "threw", !.error = UnsupportedError])
           ELSE Advance(c, [started EXCEPT
                              !.db = db, !.readFn = queryReadFunction(filePath),
                              !.trace = <<OpenEvent(db)>>,
                              !.pc = IF fileType = "excel" THEN "install" ELSE "view"])

\* an installation that goes on to the read expression without LOAD
installExtensionOnly(c, ok) ==
  /\ calls[c].pc = "install"
  /\ LET call == calls[c]
         stmt == Statement(call.db, "install", <<"INSTALL excel">>, <<>>, <<>>)
     IN  Advance(c, IF ok THEN continueAt(call, stmt, AfterInstall(call.op))
                    ELSE catchClose(call, stmt))

\* await queryDuckDB(db, "INSTALL excel")
installExtension(c, ok) ==
  /\ calls[c].pc = "install"
  /\ LET call == calls[c]
         stmt == Statement(call.db, "install", <<"INSTALL excel">>, <<>>, <<>>)
     IN  Advance(c, IF ok THEN continueAt(call, stmt, "load") ELSE catchClose(call, stmt))

\* await queryDuckDB(db, "LOAD excel")
loadExtension(c, ok) ==
  /\ calls[c].pc = "load"
  /\ LET call == calls[c]
         stmt == Statement(call.db, "load", <<"LOAD excel">>, <<>>, <<>>)
     IN  Advance(c, IF ok THEN continueAt(call, stmt, AfterInstall(call.op))
                    ELSE catchClose(call, stmt))

\* await queryDuckDB(db, `DESCRIBE SELECT * FROM ${readFn}`)
describe(c, ok) ==
  /\ calls[c].pc = "describe"
  /\ LET call == calls[c]
         stmt == Statement(call.db, "describe", <<"DESCRIBE SELECT * FROM ", call.readFn>>,
                           <<>>, <<>>)
         columns == describeColumns(DescribedColumns)
     IN  Advance(c,
           IF ~ok THEN catchClose(call, stmt)
           ELSE IF call.op = "getDuckDBColumns"
             THEN closeReturn(call, stmt, [EmptyParsed EXCEPT !.columns = columns])
           ELSE [continueAt(call, stmt, "count") EXCEPT !.result.columns = columns])

\* await queryDuckDB(db, `SELECT COUNT(*) as cnt FROM ${readFn}`)
count(c, ok) ==
  /\ calls[c].pc = "count"
  /\ LET call == calls[c]
         stmt == Statement(call.db, "count", <<"SELECT COUNT(*) as cnt FROM ", call.readFn>>,
                           <<>>, <<>>)
         totalRows == nrows
     IN  Advance(c,
           IF ~ok THEN catchClose(call, stmt)
           ELSE IF call.op = "getDuckDBRowCount"
             THEN closeReturn(call, stmt, [EmptyParsed EXCEPT !.totalRows = totalRows])
           ELSE [continueAt(call, stmt, "rows") EXCEPT !.result.totalRows = totalRows])

\* await queryDuckDB(db, `SELECT * FROM ${readFn} LIMIT ${limit} OFFSET ${offset}`)
\* and the return of parseDuckDBFile and parseParquetFile
selectRows(c, ok) ==
  /\ calls[c].pc = "rows"
  /\ LET call == calls[c]
         stmt == Statement(call.db, "select_page",
                           <<"SELECT * FROM ", call.readFn, " LIMIT ">>
                             \o numberToString(call.limit) \o <<" OFFSET ">>
                             \o numberToString(call.offset),
                           <<>>, <<>>)
         dataResult == LimitOffset(NativeRows, call.limit, call.offset)
         rows == [i \in 1..Len(dataResult) |-> processRow(dataResult[i])]
     IN  Advance(c,
           IF ~ok THEN catchClose(call, stmt)
           ELSE closeReturn(call, stmt,
                  [columns |-> call.result.columns, rows |-> rows,
                   totalRows |-> call.result.totalRows,
                   truncated |-> call.offset + Len(rows) < call.result.totalRows]))

\* await queryDuckDB(db, `CREATE VIEW data AS SELECT * FROM ${readFn}`)
createView(c, ok) ==
  /\ calls[c].pc = "view"
  /\ LET call == calls[c]
         stmt == Statement(call.db, "create_view",
                           <<"CREATE VIEW data AS SELECT * FROM ", call.readFn>>, <<>>, <<>>)
     IN  Advance(c, IF ok THEN continueAt(call, stmt, "sql") ELSE catchClose(call, stmt))

\* await queryDuckDB(db, sql) and the rest of queryDataFile
userSql(c, ok) ==
  /\ calls[c].pc = "sql"
  /\ LET call == calls[c]
         stmt == Statement(call.db, "user_sql", call.sql, <<>>, <<>>)
         run == DuckExecute(call.sql)
         rows == [i \in 1..Len(run.rows) |-> processRow(run.rows[i])]
     IN  Advance(c,
           IF ~ok \/ run.error # NoError THEN catchClose(call, stmt)
           ELSE IF Len(run.rows) = 0 THEN closeReturn(call, stmt, EmptyParsed)
           ELSE closeReturn(call, stmt,
                  [columns |-> queryColumns(run.rows[1]), rows |-> rows,
                   totalRows |-> Len(rows), truncated |-> FALSE]))

(***************************************************************************)
(* The sheet names of a workbook: extractSheetNamesFromXlsx walks the      *)
(* local file headers of the ZIP container.  A buffer is a sequence of     *)
(* bytes; offsets are counted from 0 as Buffer counts them.                *)
(***************************************************************************)
\* the characters of the codes 32 to 126; the grave accent is spelled by its code
Ascii ==
  <<" ", "!", "\"", "#", "$", "%", "&", "'", "(", ")", "*", "+", ",", "-", ".", "/", "0", "1", "2", "3", "4", "5", "6", "7", "8", "9", ":", ";", "<", "=", ">", "?", "@", "A", "B", "C", "D", "E", "F", "G", "H", "I", "J", "K", "L", "M", "N", "O", "P", "Q", "R", "S", "T", "U", "V", "W", "X", "Y", "Z", "[", "\\", "]", "^", "_">> \o <<"U+0060">>
    \o <<"a", "b", "c", "d", "e", "f", "g", "h", "i", "j", "k", "l", "m", "n", "o", "p", "q", "r", "s", "t", "u", "v", "w", "x", "y", "z", "{", "|", "}", "~">>

\* a byte above 127 that starts no valid sequence decodes to U+FFFD
ReplacementChar == "U+FFFD"
ControlChar == "control"

DecodeTable ==
  [b \in 0..255 |->
    IF b \in 32..126 THEN Ascii[b - 31]
    ELSE IF b = 9 THEN "\t"
    ELSE IF b = 10 THEN "\n"
    ELSE IF b = 13 THEN "\r"
    ELSE IF b > 127 THEN ReplacementChar
    ELSE ControlChar]

\* buffer.toString('utf8', start, end): both ends clamped to the buffer
bufferToString(buffer, start, end) ==
  LET from == Min(start, Len(buffer))
      to == Min(end, Len(buffer))
  IN  [i \in 1..Max(to - from, 0) |-> DecodeTable[buffer[from + i]]]

\* buffer.subarray(start, end)
subarray(buffer, start, end) ==
  SubSeq(buffer, Min(start, Len(buffer)) + 1, Min(end, Len(buffer)))

\* the reads throw a RangeError beyond the end of the buffer
InRange(buffer, offset, size) == offset + size <= Len(buffer)

readUInt16LE(buffer, offset) == buffer[offset + 1] + 256 * buffer[offset + 2]

readUInt32LE(buffer, offset) ==
  buffer[offset + 1] + 256 * buffer[offset + 2] + 65536 * buffer[offset + 3]
    + 16777216 * buffer[offset + 4]

LocalFileHeaderSignature == 67324752

InflateError == [ok |-> FALSE, bytes |-> <<>>]

\* the blocks of a raw DEFLATE stream from byte p on: a stored block is its
\* header bits, LEN, its complement NLEN and LEN literal bytes; block type 3
\* is invalid.  Compressed blocks (types 1 and 2) are not decoded.
RECURSIVE inflateBlocks(_, _)
inflateBlocks(data, p) ==
  IF p > Len(data) THEN InflateError
  ELSE LET final == data[p] % 2 = 1
           type == (data[p] \div 2) % 4
           len == data[p + 1] + 256 * data[p + 2]
           nlen == data[p + 3] + 256 * data[p + 4]
           rest == inflateBlocks(data, p + 5 + len)
       IN  IF type # 0 THEN InflateError
           ELSE IF p + 4 > Len(data) THEN InflateError
           ELSE IF len + nlen # 65535 THEN InflateError
           ELSE IF p + 4 + len > Len(data) THEN InflateError
           ELSE IF final THEN [ok |-> TRUE, bytes |-> SubSeq(data, p + 5, p + 4 + len)]
           ELSE IF ~rest.ok THEN InflateError
           ELSE [ok |-> TRUE, bytes |-> SubSeq(data, p + 5, p + 4 + len) \o rest.bytes]

\* createInflate in place of createInflateRaw: a zlib header is expected
inflateZlib(data) ==
  IF Len(data) >= 2 /\ data[1] = 120 THEN inflateBlocks(data, 3) ELSE InflateError

\* createInflateRaw().end(compressedData)
inflateRaw(data) == inflateBlocks(data, 1)

\* \s of a regular expression
IsWhite(ch) == ch \in {" ", "\t", "\n", "\r"}

IsQuote(ch) == ch \in {"\"", "'"}

\* the first index of s from i on that satisfies the test given as a set of
\* indices; 0 when there is none
FirstIndex(indices) ==
  IF indices = {} THEN 0 ELSE CHOOSE i \in indices : \A j \in indices : i <= j

\* /<sheet\s+[^>]*>/gi: the matches in order
RECURSIVE sheetTagRegex(_)
sheetTagRegex(xmlContent) ==
  LET lower == toLowerCase(xmlContent)
      start == FirstIndex({i \in 1..Len(xmlContent) :
                 /\ matchAt(lower, i, <<"<", "s", "h", "e", "e", "t">>)
                 /\ i + 6 <= Len(xmlContent)
                 /\ IsWhite(xmlContent[i + 6])
                 /\ \E j \in (i + 7)..Len(xmlContent) : xmlContent[j] = ">"})
      end == FirstIndex({j \in (start + 7)..Len(xmlContent) : xmlContent[j] = ">"})
  IN  IF start = 0 THEN <<>>
      ELSE <<SubSeq(xmlContent, start, end)>>
             \o sheetTagRegex(SubSeq(xmlContent, end + 1, Len(xmlContent)))

\* /name=["']([^"']+)["']/i.exec(tag): the group of the leftmost match, empty
\* when there is no match
nameMatch(tag) ==
  LET lower == toLowerCase(tag)
      start == FirstIndex({k \in 1..Len(tag) :
                 /\ matchAt(lower, k, <<"n", "a", "m", "e", "=">>)
                 /\ k + 6 <= Len(tag)
                 /\ IsQuote(tag[k + 5])
                 /\ ~IsQuote(tag[k + 6])
                 /\ \E q \in (k + 7)..Len(tag) : IsQuote(tag[q])})
      end == FirstIndex({q \in (start + 7)..Len(tag) : IsQuote(tag[q])})
  IN  IF start = 0 THEN <<>> ELSE SubSeq(tag, start + 6, end - 1)

\* the loop over the matched tags: sheets.push(nameMatch[1])
sheetNames(xmlContent) ==
  LET tags == sheetTagRegex(xmlContent)
      named == {i \in 1..Len(tags) : nameMatch(tags[i]) # <<>>}
      pick[i \in 0..Len(tags)] ==
        IF i = 0 THEN <<>>
        ELSE IF i \in named THEN pick[i - 1] \o <<nameMatch(tags[i])>>
        ELSE pick[i - 1]
  IN  pick[Len(tags)]

WorkbookEntryName == <<"x", "l", "/", "w", "o", "r", "k", "b", "o", "o", "k", ".", "x", "m", "l">>

Extracted(sheets) == [threw |-> FALSE, sheets |-> sheets]

\* the while loop of extractSheetNamesFromXlsx from offset on
RECURSIVE scanLocalHeaders(_, _)
scanLocalHeaders(buffer, offset) ==
  IF ~(offset < Len(buffer) - 4) THEN Extracted(<<>>)
  ELSE IF readUInt32LE(buffer, offset) # LocalFileHeaderSignature THEN Extracted(<<>>)
  ELSE IF ~InRange(buffer, offset + 8, 22) THEN [threw |-> TRUE, sheets |-> <<>>]
  ELSE LET compressionMethod == readUInt16LE(buffer, offset + 8)
           compressedSize == readUInt32LE(buffer, offset + 18)
           fileNameLength == readUInt16LE(buffer, offset + 26)
           extraFieldLength == readUInt16LE(buffer, offset + 28)
           fileName == bufferToString(buffer, offset + 30, offset + 30 + fileNameLength)
           dataStart == offset + 30 + fileNameLength + extraFieldLength
           dataEnd == dataStart + compressedSize
           decompressed == inflateRaw(subarray(buffer, dataStart, dataEnd))
       IN  IF fileName # WorkbookEntryName THEN scanLocalHeaders(buffer, dataEnd)
           ELSE IF compressionMethod = 0
             THEN Extracted(sheetNames(bufferToString(buffer, dataStart, dataEnd)))
           ELSE IF compressionMethod = 8
             THEN IF decompressed.ok
                    THEN Extracted(sheetNames(
                           bufferToString(decompressed.bytes, 0, Len(decompressed.bytes))))
                    ELSE Extracted(<<>>)
           ELSE Extracted(<<>>)

extractSheetNamesFromXlsx(buffer) == scanLocalHeaders(buffer, 0)

\* a thrown error leaves listExcelSheets
rethrow(extracted) ==
  IF extracted.threw THEN Failed(<<>>, EngineError)
  ELSE Outcome(<<>>, NoError, EmptyParsed, extracted.sheets)

\* try { ... return sheets } catch (error) { return [] } of listExcelSheets
catchReturnEmpty(extracted) ==
  Outcome(<<>>, NoError, EmptyParsed, IF extracted.threw THEN <<>> ELSE extracted.sheets)

ReadEvent == Event("read", 0, "", <<>>, <<>>, <<>>)

\* listExcelSheets up to its first await
listExcelSheets(c, filePath) ==
  /\ Idle(c)
  /\ LET ext == toLowerCase(extname(filePath))
         started == [IdleCall EXCEPT !.op = "listExcelSheets", !.filePath = filePath]
     IN  Advance(c, IF ext = <<".", "x", "l", "s">> THEN [started EXCEPT !.pc = "returned"]
                    ELSE [started EXCEPT !.pc = "readFile"])

\* await readFile(filePath) and the rest of listExcelSheets; the file holds
\* the bytes of file, or cannot be read
readFile(c, file) ==
  /\ calls[c].pc = "readFile"
  /\ LET r == IF file.recipe.kind = "unreadable"
                THEN catchReturnEmpty([threw |-> TRUE, sheets |-> <<>>])
                ELSE catchReturnEmpty(extractSheetNamesFromXlsx(file.buffer))
     IN  Advance(c, [calls[c] EXCEPT !.pc = IF r.error = NoError THEN "returned" ELSE "threw",
                                     !.zip = file.recipe, !.buffer = file.buffer,
                                     !.trace = <<ReadEvent>>, !.error = r.error,
                                     !.list = r.list])

(***************************************************************************)
(* index.ts: the dispatcher.  parseCsvFile and parseJsonFile are not part  *)
(* of the readers modelled here: a call handed to them ends in one step    *)
(* with no session of the relational or the analytics engine.              *)
(***************************************************************************)
DefaultLimit == 1000

\* parseDataFile of index.ts; an empty tableName is no tableName
parseDataFile(c, filePath, tableName, limit, offset, fail) ==
  /\ Idle(c)
  /\ LET fileType == detectFileType(filePath)
         started == [IdleCall EXCEPT !.caller = "parseDataFile", !.fileType = fileType,
                                     !.filePath = filePath, !.tableName = tableName,
                                     !.limit = limit, !.offset = offset, !.fail = fail]
         db == NewDatabase(c, 1)
         db2 == NewDatabase(c, 2)
         listed == listSqliteTablesRun(db, fail)
         first == previewSqliteTableRun(db2, listed.list[1], limit, offset,
                                        IF fail = "open2" THEN "open" ELSE fail)
     IN  IF fileType \in {"parquet", "arrow", "excel"}
           THEN startDuckDB(c, "parseDataFile", "parseDuckDBFile", filePath, limit, offset)
         ELSE IF fileType \in {"csv", "json"}
           THEN Completed(c, [started EXCEPT !.op = "parseTextFile"],
                          IF fail = "none" THEN Outcome(<<>>, NoError, EmptyParsed, <<>>)
                          ELSE Failed(<<>>, EngineError))
         ELSE IF fileType = "sqlite" /\ tableName # <<>>
           THEN Completed(c, [started EXCEPT !.op = "previewSqliteTable", !.db = db],
                          previewSqliteTableRun(db, tableName, limit, offset, fail))
         ELSE IF fileType = "sqlite"
           THEN Completed(c, [started EXCEPT !.op = "previewSqliteTable", !.db = db],
                          IF listed.error # NoError THEN listed
                          ELSE IF Len(listed.list) = 0
                            THEN Outcome(listed.trace, NoError, EmptyParsed, <<>>)
                          ELSE [first EXCEPT !.trace = listed.trace \o @])
         ELSE Completed(c, [started EXCEPT !.op = "parseDataFile"],
                        Failed(<<>>, UnsupportedError))

\* a dispatcher that hands every file to the analytics reader
queryDataFileAnalyticsOnly(c, filePath, sql, fail) ==
  queryDataFile(c, "queryDataFile", filePath, sql)

\* queryDataFile of index.ts
queryDataFileIndex(c, filePath, sql, fail) ==
  /\ Idle(c)
  /\ LET fileType == detectFileType(filePath)
         db == NewDatabase(c, 1)
     IN  IF fileType = "sqlite"
           THEN Completed(c, [IdleCall EXCEPT !.op = "querySqlite", !.caller = "queryDataFile",
                                              !.fileType = fileType, !.filePath = filePath,
                                              !.db = db, !.sql = sql, !.limit = DefaultLimit,
                                              !.fail = fail],
                          querySqliteRun(db, sql, DefaultLimit, fail))
           ELSE queryDataFile(c, "queryDataFile", filePath, sql)

(***************************************************************************)
(* The inputs of the calls.                                                *)
(***************************************************************************)
Limits == 0..MaxLimit
Offsets == 0..MaxOffset

\* statements a caller may type
SqlSamples ==
  { <<"S", "E", "L", "E", "C", "T", " ", "*", " ", "F", "R", "O", "M", " ", "t">>,
    <<" ", " ", "s", "e", "l", "e", "c", "t", " ", "*", " ", "f", "r", "o", "m", " ", "t", " ", " ">>,
    <<"S", "E", "L", "E", "C", "T", " ", "*", " ", "F", "R", "O", "M", " ", "t", " ", "L", "I", "M", "I", "T", " ", "3">>,
    <<"S", "E", "L", "E", "C", "T", " ", "*", " ", "F", "R", "O", "M", " ", "t", " ", "l", "i", "m", "i", "t", " ", "1">>,
    <<"S", "E", "L", "E", "C", "T", " ", "*", " ", "F", "R", "O", "M", " ", "l", "i", "m", "i", "t", "s">>,
    <<"S", "E", "L", "E", "C", "T", " ", "*", " ", "F", "R", "O", "M", " ", "n", "o", "p", "e">>,
    <<"S", "E", "L", "E", "C", "T", " ", "*", " ", "F", "R", "O", "M", " ", "d", "a", "t", "a">>,
    <<"S", "E", "L", "E", "C", "T", " ", "*", " ", "F", "R", "O", "M", " ", "d", "a", "t", "a", " ", "L", "I", "M", "I", "T", " ", "2">>,
    <<"D", "R", "O", "P", " ", "T", "A", "B", "L", "E", " ", "x">>,
    <<"S", "E", "L", "E", "C", "T", " ", "*", " ", "F", "R", "O", "M", " ", "t", ";", " ", "D", "E", "L", "E", "T", "E", " ", "F", "R", "O", "M", " ", "t">>,
    <<"S", "E", "L", "E", "C", "T", "E", "D">> }

TypeOK ==
  /\ catalog \in Catalogs
  /\ declared \in Seq(STRING)
  /\ nrows \in 0..MaxRows
  /\ open \subseteq 1..4
  /\ \A c \in CallIds :
       calls[c].pc \in {"idle", "returned", "threw", "install", "load", "describe",
                        "count", "rows", "view", "sql", "readFile"}

\* the declared type of id in the files the readers are called on
DefaultDeclared == <<"B", "I", "G", "I", "N", "T">>

Init ==
  /\ catalog \in Catalogs
  /\ declared = DefaultDeclared
  /\ nrows \in 0..MaxRows
  /\ calls = [c \in CallIds |-> IdleCall]
  /\ open = {}
  /\ FilesStart

Next ==
  \/ \E c \in SingleCaller, fail \in {"none", "open", "list"} : listSqliteTables(c, fail)
  \/ \E c \in SingleCaller, tableName \in TableNames, limit \in Limits, offset \in Offsets,
        fail \in {"none", "open", "lookup", "table_info", "count", "select"} :
       previewSqliteTable(c, tableName, limit, offset, fail)
  \/ \E c \in SingleCaller, sql \in SqlSamples, limit \in Limits,
        fail \in {"none", "open", "exec"} :
       querySqlite(c, sql, limit, fail)
  \/ \E c \in SingleCaller, fail \in {"none", "open", "open2", "list", "table_info"} :
       getSqliteSchema(c, fail)
  \/ \E c \in SingleCaller, filePath \in FilePaths, limit \in Limits, offset \in Offsets :
       parseDuckDBFile(c, filePath, limit, offset)
  \/ \E c \in SingleCaller, filePath \in FilePaths : getDuckDBRowCount(c, filePath)
  \/ \E c \in SingleCaller, filePath \in FilePaths : getDuckDBColumns(c, filePath)
  \/ \E c \in SingleCaller, limit \in Limits, offset \in Offsets : parseParquetFile(c, limit, offset)
  \/ \E c \in SingleCaller, filePath \in FilePaths, sql \in SqlSamples : queryDataFile(c, "direct", filePath, sql)
  \/ \E c \in SingleCaller, ok \in BOOLEAN : installExtension(c, ok)
  \/ \E c \in SingleCaller, ok \in BOOLEAN : loadExtension(c, ok)
  \/ \E c \in SingleCaller, ok \in BOOLEAN : describe(c, ok)
  \/ \E c \in SingleCaller, ok \in BOOLEAN : count(c, ok)
  \/ \E c \in SingleCaller, ok \in BOOLEAN : selectRows(c, ok)
  \/ \E c \in SingleCaller, ok \in BOOLEAN : createView(c, ok)
  \/ \E c \in SingleCaller, ok \in BOOLEAN : userSql(c, ok)

Spec == Init /\ [][Next]_vars

(***************************************************************************)
(* The ad-hoc query of the relational reader over a larger set of texts:   *)
(* every combination of lead, verb, object, name and tail.                 *)
(***************************************************************************)
SqlLeads == { <<>>, <<" ">> }
SqlVerbs == { <<"S", "E", "L", "E", "C", "T">>, <<"s", "e", "l", "e", "c", "t">>, <<"S", "e", "L", "e", "C", "t">>, <<"D", "R", "O", "P">>, <<"S", "E", "L", "E", "C", "T", "E", "D">> }
SqlObjects == { <<" ", "*", " ", "F", "R", "O", "M", " ">>, <<" ", "T", "A", "B", "L", "E", " ">> }
SqlNames == { <<"t">>, <<"x">>, <<"l", "i", "m", "i", "t", "s">>, <<"d", "r", "o", "p", "p", "e", "d">>, <<"d", "r", "o", "p">>, <<"t", "_", "u", "p", "d", "a", "t", "e">> }
SqlTails ==
  { <<>>, <<" ">>, <<" ", "L", "I", "M", "I", "T", " ", "3">>, <<" ", "l", "i", "m", "i", "t", " ", "1">>, <<";", " ", "D", "E", "L", "E", "T", "E", " ", "F", "R", "O", "M", " ", "t">>, <<";", " ", "d", "e", "l", "e", "t", "e", " ", "f", "r", "o", "m", " ", "t">>,
    <<" ", "W", "H", "E", "R", "E", " ", "a", "=", "'", "l", "i", "m", "i", "t", "'">> }

SqlTexts ==
  { lead \o verb \o object \o name \o tail :
      lead \in SqlLeads, verb \in SqlVerbs, object \in SqlObjects,
      name \in SqlNames, tail \in SqlTails }

InitSql ==
  /\ catalog = FullCatalog
  /\ declared = DefaultDeclared
  /\ nrows = MaxRows
  /\ calls = [c \in CallIds |-> IdleCall]
  /\ open = {}
  /\ FilesStart

NextSql ==
  \E c \in SingleCaller, sql \in SqlTexts, limit \in Limits, fail \in {"none", "open"} :
    querySqlite(c, sql, limit, fail)

SpecSql == InitSql /\ [][NextSql]_vars

(***************************************************************************)
(* Concurrent callers: every slot of calls takes a call, and the awaits of *)
(* the analytics calls interleave with the steps of the other call.  The   *)
(* relational operations are synchronous and run in one step.              *)
(***************************************************************************)
ConcPaths == { <<"a", ".", "p", "a", "r", "q", "u", "e", "t">>, <<"b", ".", "x", "l", "s", "x">>, <<"h", ".", "t", "x", "t">> }
ConcSql == { <<"S", "E", "L", "E", "C", "T", " ", "*", " ", "F", "R", "O", "M", " ", "d", "a", "t", "a">>, <<"S", "E", "L", "E", "C", "T", " ", "*", " ", "F", "R", "O", "M", " ", "n", "o", "p", "e">> }

InitConc ==
  /\ catalog = FullCatalog
  /\ declared = DefaultDeclared
  /\ nrows = 2
  /\ calls = [c \in CallIds |-> IdleCall]
  /\ open = {}
  /\ FilesStart

NextConc ==
  \/ \E c \in CallIds, tableName \in {NameT, NameMissing}, fail \in {"none", "select"} :
       previewSqliteTable(c, tableName, 1, 1, fail)
  \/ \E c \in CallIds, fail \in {"none", "table_info"} : getSqliteSchema(c, fail)
  \/ \E c \in CallIds, filePath \in ConcPaths : parseDuckDBFile(c, filePath, 1, 1)
  \/ \E c \in CallIds, filePath \in ConcPaths, sql \in ConcSql : queryDataFile(c, "direct", filePath, sql)
  \/ \E c \in CallIds, ok \in BOOLEAN : installExtension(c, ok)
  \/ \E c \in CallIds, ok \in BOOLEAN : loadExtension(c, ok)
  \/ \E c \in CallIds, ok \in BOOLEAN : describe(c, ok)
  \/ \E c \in CallIds, ok \in BOOLEAN : count(c, ok)
  \/ \E c \in CallIds, ok \in BOOLEAN : selectRows(c, ok)
  \/ \E c \in CallIds, ok \in BOOLEAN : createView(c, ok)
  \/ \E c \in CallIds, ok \in BOOLEAN : userSql(c, ok)

SpecConc == InitConc /\ [][NextConc]_vars

(***************************************************************************)
(* The dispatcher over paths that spell directories, dotted names, upper   *)
(* case and trailing separators.                                           *)
(***************************************************************************)
PathDirs == { <<>>, <<"a", ".", "b", "/">>, <<"/", "x", ".", "c", "s", "v", "/">> }
PathStems == { <<>>, <<"f">>, <<".", "F">>, <<"f", ".", "x", "l", "s">> }
PathExts ==
  { <<>>, <<".">>, <<".", "c", "s", "v">>, <<".", "C", "S", "V">>, <<".", "t", "s", "v">>, <<".", "j", "s", "o", "n">>, <<".", "J", "s", "o", "n", "L">>, <<".", "d", "b">>, <<".", "s", "q", "l", "i", "t", "e">>,
    <<".", "s", "q", "l", "i", "t", "e", "3">>, <<".", "p", "a", "r", "q", "u", "e", "t">>, <<".", "p", "q">>, <<".", "x", "l", "s", "x">>, <<".", "x", "l", "s">>, <<".", "X", "L", "S">>, <<".", "a", "r", "r", "o", "w">>,
    <<".", "f", "e", "a", "t", "h", "e", "r">>, <<".", "i", "p", "c">>, <<".", "t", "x", "t">>, <<".", "x", "l", "s", "m">>, <<".", "c", "s", "v", "/">>, <<"c", "s", "v">> }

DispatchPaths ==
  { dir \o stem \o ext : dir \in PathDirs, stem \in PathStems, ext \in PathExts }

InitDispatch ==
  /\ catalog \in Catalogs
  /\ declared = DefaultDeclared
  /\ nrows = 2
  /\ calls = [c \in CallIds |-> IdleCall]
  /\ open = {}
  /\ FilesStart

NextDispatch ==
  \/ \E c \in SingleCaller, filePath \in DispatchPaths, tableName \in {<<>>, NameT, NameMissing},
        fail \in {"none", "open", "list", "open2"} :
       parseDataFile(c, filePath, tableName, 1, 0, fail)
  \/ \E c \in SingleCaller, filePath \in DispatchPaths,
        sql \in { <<"S", "E", "L", "E", "C", "T", " ", "*", " ", "F", "R", "O", "M", " ", "d", "a", "t", "a">>, <<"S", "E", "L", "E", "C", "T", " ", "*", " ", "F", "R", "O", "M", " ", "t">>, <<"D", "R", "O", "P", " ", "T", "A", "B", "L", "E", " ", "x">> },
        fail \in {"none", "open"} :
       queryDataFileIndex(c, filePath, sql, fail)
  \/ \E c \in SingleCaller, ok \in BOOLEAN : installExtension(c, ok)
  \/ \E c \in SingleCaller, ok \in BOOLEAN : loadExtension(c, ok)
  \/ \E c \in SingleCaller, ok \in BOOLEAN : describe(c, ok)
  \/ \E c \in SingleCaller, ok \in BOOLEAN : count(c, ok)
  \/ \E c \in SingleCaller, ok \in BOOLEAN : selectRows(c, ok)
  \/ \E c \in SingleCaller, ok \in BOOLEAN : createView(c, ok)
  \/ \E c \in SingleCaller, ok \in BOOLEAN : userSql(c, ok)

SpecDispatch == InitDispatch /\ [][NextDispatch]_vars

(***************************************************************************)
(* Files for listExcelSheets: archives with the workbook entry stored or   *)
(* deflated, first or behind other entries, and files that are no archive, *)
(* are cut short or hold a damaged entry.                                  *)
(***************************************************************************)
CodeOf == [ch \in Range(Ascii) |-> 31 + CHOOSE i \in 1..Len(Ascii) : Ascii[i] = ch]

\* the bytes of a text of ASCII characters
utf8(text) == [i \in 1..Len(text) |-> CodeOf[text[i]]]

Bytes16(n) == <<n % 256, n \div 256>>
Bytes32(n) == <<n % 256, (n \div 256) % 256, (n \div 65536) % 256, n \div 16777216>>

\* a local file header with the sizes in the header, and the data behind it
LocalFileEntry(method, name, nameLength, extra, data) ==
  <<80, 75, 3, 4, 20, 0, 0, 0>> \o Bytes16(method) \o <<0, 0, 0, 0, 0, 0, 0, 0>>
    \o Bytes32(Len(data)) \o Bytes32(Len(data)) \o Bytes16(nameLength)
    \o Bytes16(Len(extra)) \o utf8(name) \o extra \o data

\* one final stored block, as a compressor at level 0 writes it
deflateStored(bytes) ==
  <<1>> \o Bytes16(Len(bytes)) \o Bytes16(65535 - Len(bytes)) \o bytes

CentralDirectory == <<80, 75, 1, 2, 20, 0, 20, 0, 0, 0>>

ContentTypesEntry ==
  LocalFileEntry(0, <<"[", "C", "o", "n", "t", "e", "n", "t", "_", "T", "y", "p", "e", "s", "]", ".", "x", "m", "l">>, 19, <<>>, utf8(<<"<", "T", "y", "p", "e", "s", "/", ">">>))

StylesEntry ==
  LocalFileEntry(8, <<"x", "l", "/", "s", "t", "y", "l", "e", "s", ".", "x", "m", "l">>, 13, <<1, 0, 2, 0, 7, 7>>, deflateStored(utf8(<<"<", "s", "/", ">">>)))

EntriesBefore(layout) ==
  IF layout = 1 THEN <<>>
  ELSE IF layout = 2 THEN ContentTypesEntry
  ELSE ContentTypesEntry \o StylesEntry

WorkbookData(method, xml) ==
  IF method = 8 THEN deflateStored(utf8(xml)) ELSE utf8(xml)

ZipArchive(method, layout, xml) ==
  EntriesBefore(layout)
    \o LocalFileEntry(method, WorkbookEntryName, 15, <<>>, WorkbookData(method, xml))
    \o CentralDirectory

SheetXmls ==
  { <<"<", "s", "h", "e", "e", "t", "s", ">", "<", "s", "h", "e", "e", "t", " ", "n", "a", "m", "e", "=", "\"", "A", "\"", " ", "s", "h", "e", "e", "t", "I", "d", "=", "\"", "1", "\"", "/", ">", "<", "s", "h", "e", "e", "t", " ", "n", "a", "m", "e", "=", "\"", "B", "\"", " ", "s", "h", "e", "e", "t", "I", "d", "=", "\"", "2", "\"", "/", ">", "<", "/", "s", "h", "e", "e", "t", "s", ">">>,
    <<"<", "s", "h", "e", "e", "t", " ", "s", "h", "e", "e", "t", "I", "d", "=", "\"", "1", "\"", " ", "r", ":", "i", "d", "=", "\"", "r", "I", "d", "1", "\"", " ", " ", "n", "a", "m", "e", "=", "'", "Q", "1", "'", "/", ">">>,
    <<"<", "s", "h", "e", "e", "t", " ", "n", "a", "m", "e", "=", "\"", "i", "t", "'", "s", "\"", " ", "s", "h", "e", "e", "t", "I", "d", "=", "\"", "1", "\"", "/", ">">>,
    <<"<", "s", "h", "e", "e", "t", " ", "s", "h", "e", "e", "t", "I", "d", "=", "\"", "3", "\"", "/", ">", "<", "s", "h", "e", "e", "t", " ", "n", "a", "m", "e", "=", "\"", "C", "\"", "/", ">">> }

NoSheetXmls == { <<>>, <<"<", "w", "o", "r", "k", "b", "o", "o", "k", ">", "<", "s", "h", "e", "e", "t", "s", "/", ">", "<", "/", "w", "o", "r", "k", "b", "o", "o", "k", ">">> }

Layouts == {1, 2, 3}

File(kind, method, layout, xml, buffer) ==
  [recipe |-> [kind |-> kind, method |-> method, layout |-> layout, xml |-> xml],
   buffer |-> buffer]

Cut(buffer, length) == SubSeq(buffer, 1, length)

SampleArchive == ZipArchive(0, 2, <<"<", "s", "h", "e", "e", "t", " ", "n", "a", "m", "e", "=", "\"", "A", "\"", "/", ">">>)

WorkbookFiles ==
  { File("workbook", method, layout, xml, ZipArchive(method, layout, xml)) :
      method \in {0, 8}, layout \in Layouts, xml \in SheetXmls }

NoSheetFiles ==
  { File("no_sheet_tag", method, layout, xml, ZipArchive(method, layout, xml)) :
      method \in {0, 8}, layout \in Layouts, xml \in NoSheetXmls }

OtherMethodFiles ==
  { File("other_method", method, layout, xml, ZipArchive(method, layout, xml)) :
      method \in {1, 12}, layout \in Layouts, xml \in SheetXmls }

NotZipFiles ==
  { File("no_signature", 0, 0, <<>>, buffer) :
      buffer \in { <<>>, <<80, 75, 3>>, <<80, 75, 3, 4>>, <<80, 75, 5, 6, 0, 0, 0, 0>>,
                    utf8(<<"<", "s", "h", "e", "e", "t", " ", "n", "a", "m", "e", "=", "\"", "A", "\"", "/", ">">>),
                    CentralDirectory \o SampleArchive } }

CutHeaderFiles ==
  { File("cut_header", 0, 2, <<>>, Cut(SampleArchive, length)) :
      length \in {5, 9, 27, 29} \cup {Len(ContentTypesEntry) + n : n \in {5, 20, 29}} }

\* the buffer ends in or right behind the file name of an entry
CutNameFiles ==
  { File("cut_name", 0, 2, <<>>, Cut(SampleArchive, Len(ContentTypesEntry) + n)) :
      n \in {30, 37, 45} }
  \cup { File("cut_name", method, 1, <<>>,
               Cut(LocalFileEntry(method, WorkbookEntryName, 20, <<>>, <<>>), 45)) :
            method \in {0, 8} }

NoWorkbookFiles ==
  { File("no_workbook", 0, 0, <<>>, buffer) :
      buffer \in { ContentTypesEntry \o StylesEntry \o CentralDirectory,
                    ContentTypesEntry,
                    LocalFileEntry(0, <<"x", "l", "/", "w", "o", "r", "k", "b", "o", "o", "k", ".", "x", "m", "l", "x">>, 16, <<>>,
                                   utf8(<<"<", "s", "h", "e", "e", "t", " ", "n", "a", "m", "e", "=", "\"", "A", "\"", "/", ">">>)) \o CentralDirectory,
                    LocalFileEntry(0, <<"X", "L", "/", "w", "o", "r", "k", "b", "o", "o", "k", ".", "x", "m", "l">>, 15, <<>>,
                                   utf8(<<"<", "s", "h", "e", "e", "t", " ", "n", "a", "m", "e", "=", "\"", "A", "\"", "/", ">">>)) \o CentralDirectory } }

BadDeflateFiles ==
  { File("bad_deflate", 8, layout, <<>>,
         EntriesBefore(layout) \o LocalFileEntry(8, WorkbookEntryName, 15, <<>>, data)
           \o CentralDirectory) :
      layout \in Layouts,
      data \in { <<>>, <<7, 0, 0>>, <<1, 3, 0>>, <<1, 3, 0, 0, 0, 60, 115, 62>>,
                 <<1, 9, 0, 246, 255, 60, 115>>, <<6>> } }

UnreadableFile == File("unreadable", 0, 0, <<>>, <<>>)

DamagedKinds ==
  {"no_signature", "cut_header", "cut_name", "no_workbook", "other_method", "bad_deflate",
   "no_sheet_tag", "unreadable"}

ZipFiles ==
  WorkbookFiles \cup NoSheetFiles \cup OtherMethodFiles \cup NotZipFiles \cup CutHeaderFiles
    \cup CutNameFiles \cup NoWorkbookFiles \cup BadDeflateFiles \cup {UnreadableFile}

SheetPaths == { <<"b", ".", "x", "l", "s", "x">>, <<"c", ".", "x", "l", "s">>, <<"a", ".", "b", "/", "F", ".", "X", "L", "S">>, <<"B", ".", "X", "L", "S", "X">>, <<"h", ".", "t", "x", "t">> }

InitZip ==
  /\ catalog = {}
  /\ declared = DefaultDeclared
  /\ nrows = 0
  /\ calls = [c \in CallIds |-> IdleCall]
  /\ open = {}
  /\ FilesStart

NextZip ==
  \/ \E c \in SingleCaller, filePath \in SheetPaths : listExcelSheets(c, filePath)
  \/ \E c \in SingleCaller, file \in ZipFiles : readFile(c, file)

SpecZip == InitZip /\ [][NextZip]_vars

(***************************************************************************)
(* Files whose column id is declared with one of a set of native types.    *)
(***************************************************************************)
NativeTypes ==
  { <<>>, <<"B", "I", "G", "I", "N", "T">>, <<"i", "n", "t", "e", "g", "e", "r">>, <<"V", "A", "R", "C", "H", "A", "R", "(", "2", "5", "5", ")">>, <<"U", "U", "I", "D">>, <<"J", "S", "O", "N">>, <<"G", "E", "O", "M", "E", "T", "R", "Y">>,
    <<"B", "O", "O", "L", "E", "A", "N">>, <<"T", "I", "M", "E", "S", "T", "A", "M", "P">>, <<"t", "e", "x", "t">>, <<"B", "L", "O", "B">>, <<"D", "O", "U", "B", "L", "E">>, <<"I", "N", "T", "E", "R", "V", "A", "L">>, <<"P", "O", "I", "N", "T">> }

InitTypes ==
  /\ catalog = FullCatalog
  /\ declared \in NativeTypes
  /\ nrows = 1
  /\ calls = [c \in CallIds |-> IdleCall]
  /\ open = {}
  /\ FilesStart

NextTypes ==
  \/ \E c \in SingleCaller, limit \in 0..1, offset \in 0..1, fail \in {"none", "count"} :
       previewSqliteTable(c, NameT, limit, offset, fail)
  \/ \E c \in SingleCaller : getSqliteSchema(c, "none")
  \/ \E c \in SingleCaller, filePath \in { <<"a", ".", "p", "a", "r", "q", "u", "e", "t">>, <<"d", ".", "a", "r", "r", "o", "w">> }, limit \in 0..1,
        offset \in 0..1 :
       parseDuckDBFile(c, filePath, limit, offset)
  \/ \E c \in SingleCaller : getDuckDBColumns(c, <<"a", ".", "p", "a", "r", "q", "u", "e", "t">>)
  \/ \E c \in SingleCaller, ok \in BOOLEAN : describe(c, ok)
  \/ \E c \in SingleCaller, ok \in BOOLEAN : count(c, ok)
  \/ \E c \in SingleCaller, ok \in BOOLEAN : selectRows(c, ok)

SpecTypes == InitTypes /\ [][NextTypes]_vars

(***************************************************************************)
(* Properties.                                                             *)
(***************************************************************************)
Done(c) == calls[c].pc \in {"returned", "threw"}
Returned(c) == calls[c].pc = "returned"
Threw(c) == calls[c].pc = "threw"

RelationalOps == {"listSqliteTables", "previewSqliteTable", "querySqlite", "getSqliteSchema"}
AnalyticsOps ==
  {"parseDuckDBFile", "getDuckDBRowCount", "getDuckDBColumns", "queryDataFile",
   "parseParquetFile"}
PagedOps == {"previewSqliteTable", "parseDuckDBFile", "parseParquetFile"}

\* the positions of the trace of call c whose event satisfies the test
Spliced(c) == {i \in 1..Len(calls[c].trace) : calls[c].trace[i].ident # <<>>}

\* event i of call c splices a well-formed quoted identifier that denotes
\* the table name it was made from
SplicedEscaped(c, i) ==
  ParseQuotedIdentifier(calls[c].trace[i].ident) = calls[c].trace[i].name

\* before event i, call c looked the name of event i up in the catalog with
\* a bound parameter, on the same session, and the catalog has it
ValidatedBefore(c, i) ==
  /\ SqliteMasterLookup(calls[c].trace[i].name)
  /\ \E j \in 1..(i - 1) :
       /\ calls[c].trace[j].kind = "catalog_lookup"
       /\ calls[c].trace[j].name = calls[c].trace[i].name
       /\ calls[c].trace[j].db = calls[c].trace[i].db

\* before event i, call c listed the catalog, and the listing has the name
ListedBefore(c, i) ==
  /\ SqliteMasterLookup(calls[c].trace[i].name)
  /\ \E k \in 1..Len(SqliteMasterList) : SqliteMasterList[k] = calls[c].trace[i].name
  /\ \E j \in 1..(i - 1) : calls[c].trace[j].kind = "catalog_list"

\* a preview of a name the catalog lacks throws, table-not-found unless the
\* engine failed first, and splices the name into no statement
UnknownNameRejected(c) ==
  (/\ calls[c].op = "previewSqliteTable"
   /\ Done(c)
   /\ ~SqliteMasterLookup(calls[c].tableName))
    => /\ Threw(c)
       /\ Spliced(c) = {}
       /\ calls[c].fail \notin {"open", "lookup"} => calls[c].error = TableNotFoundError

\* C1 as stated: every table name spliced into SQL text was first confirmed
\* by the parametrized lookup of validateTableName and is escaped; a preview
\* of an unknown name fails before any statement with the name is prepared.
C1_AsStated ==
  \A c \in CallIds :
    /\ \A i \in Spliced(c) : ValidatedBefore(c, i) /\ SplicedEscaped(c, i)
    /\ UnknownNameRejected(c)

\* C1 amended: every table name spliced into SQL text is escaped and was
\* first confirmed to be a table of the catalog, by the parametrized lookup
\* of validateTableName (previewSqliteTable) or by the catalog listing of
\* listSqliteTables (getSqliteSchema); a preview of an unknown name fails
\* before any statement with the name is prepared.
C1_SplicedNamesConfirmed ==
  \A c \in CallIds :
    /\ \A i \in Spliced(c) :
         /\ SplicedEscaped(c, i)
         /\ IF calls[c].op = "getSqliteSchema" THEN ListedBefore(c, i)
            ELSE ValidatedBefore(c, i)
    /\ UnknownNameRejected(c)

C1_Witness ==
  \E c \in CallIds :
    /\ calls[c].op = "previewSqliteTable"
    /\ calls[c].tableName = NameQuoted
    /\ Returned(c)
    /\ Cardinality(Spliced(c)) = 3

\* a keyword occurs in the text as a whole word, in any letter case
OccursAsWholeWord(keyword, text) ==
  \E i \in 1..Len(text) :
    /\ i + Len(keyword) - 1 <= Len(text)
    /\ toUpperCase(SubSeq(text, i, i + Len(keyword) - 1)) = keyword
    /\ i > 1 => ~IsWordChar(text[i - 1])
    /\ i + Len(keyword) <= Len(text) => ~IsWordChar(text[i + Len(keyword)])

ShouldAccept(sql) ==
  /\ startsWith(toUpperCase(trim(sql)), KwSelect)
  /\ \A k \in 1..Len(dangerousKeywords) : ~OccursAsWholeWord(dangerousKeywords[k], sql)

\* the verdicts of the validation events of call c
Verdicts(c) ==
  {calls[c].trace[i].kind : i \in {j \in 1..Len(calls[c].trace) : calls[c].trace[j].e = "validate"}}

UserStatements(c) ==
  {i \in 1..Len(calls[c].trace) : calls[c].trace[i].kind = "user_sql"}

\* C2: validateSqlQuery accepts a statement iff its trimmed upper-cased text
\* starts with SELECT and no blocklisted keyword occurs in it as a whole
\* word; it rejects "DROP TABLE x" and "SELECT * FROM t; DELETE FROM t",
\* accepts "SELECT * FROM t"; querySqlite executes nothing it rejected.
C2_ValidateSqlQuery ==
  \A c \in CallIds :
    (calls[c].op = "querySqlite" /\ Done(c) /\ calls[c].fail # "open") =>
      /\ Verdicts(c) = {NoError} <=> ShouldAccept(calls[c].sql)
      /\ Verdicts(c) # {NoError} => Threw(c) /\ calls[c].error \in Verdicts(c)
      /\ UserStatements(c) # {} => ShouldAccept(calls[c].sql)
      /\ calls[c].sql \in { <<"D", "R", "O", "P", " ", "T", "A", "B", "L", "E", " ", "x">>, <<"S", "E", "L", "E", "C", "T", " ", "*", " ", "F", "R", "O", "M", " ", "t", ";", " ", "D", "E", "L", "E", "T", "E", " ", "F", "R", "O", "M", " ", "t">> }
           => Verdicts(c) # {NoError} /\ UserStatements(c) = {}
      /\ calls[c].sql = <<"S", "E", "L", "E", "C", "T", " ", "*", " ", "F", "R", "O", "M", " ", "t">> => Verdicts(c) = {NoError}

\* a keyword inside an identifier is let through and the statement executed
C2_Witness ==
  \E c \in CallIds :
    /\ calls[c].op = "querySqlite"
    /\ calls[c].sql = <<" ", "S", "e", "L", "e", "C", "t", " ", "*", " ", "F", "R", "O", "M", " ", "d", "r", "o", "p", "p", "e", "d">>
    /\ Verdicts(c) = {NoError}
    /\ UserStatements(c) # {}

\* the statement has a LIMIT clause: the word LIMIT outside string literals
RECURSIVE OutsideLiterals(_, _)
OutsideLiterals(text, inside) ==
  IF text = <<>> THEN <<>>
  ELSE IF Head(text) = "'" THEN <<"'">> \o OutsideLiterals(Tail(text), ~inside)
  ELSE (IF inside THEN <<"'">> ELSE <<Head(text)>>) \o OutsideLiterals(Tail(text), inside)

HasLimitClause(sql) == OccursAsWholeWord(KwLimit, OutsideLiterals(sql, FALSE))

ExecutedText(c) == calls[c].trace[CHOOSE i \in UserStatements(c) : TRUE].text

\* C3 as stated: for every statement that begins with SELECT and has no
\* LIMIT clause, also when the letters LIMIT occur in an identifier or a
\* string literal, querySqlite executes the trimmed statement followed by
\* " LIMIT <limit>"; a statement with a LIMIT clause is executed unchanged.
C3_AsStated ==
  \A c \in CallIds :
    (calls[c].op = "querySqlite" /\ UserStatements(c) # {}) =>
      ExecutedText(c) =
        IF startsWith(toUpperCase(trim(calls[c].sql)), KwSelect) /\ ~HasLimitClause(calls[c].sql)
          THEN trim(calls[c].sql) \o <<" ", "L", "I", "M", "I", "T", " ">> \o numberToString(calls[c].limit)
          ELSE trim(calls[c].sql)

\* C4: a paginated preview returns at most limit rows.
C4_RowsWithinLimit ==
  \A c \in CallIds :
    (calls[c].op \in PagedOps /\ Returned(c)) =>
      Len(calls[c].result.rows) <= calls[c].limit

C4_Witness ==
  \E c \in CallIds :
    /\ calls[c].op = "previewSqliteTable"
    /\ Returned(c)
    /\ calls[c].limit > 0
    /\ Len(calls[c].result.rows) = calls[c].limit
    /\ calls[c].offset + calls[c].limit < calls[c].result.totalRows

\* C5 as stated: an ad-hoc query returns at most limit rows, also when the
\* caller's SQL carries a LIMIT clause larger than the limit option.
C5_AsStated ==
  \A c \in CallIds :
    (calls[c].op = "querySqlite" /\ Returned(c)) =>
      Len(calls[c].result.rows) <= calls[c].limit

\* C6: with a true count, truncated = (offset + rows.length < totalRows);
\* the relational offset + limit < totalRows gives the same value.
C6_TruncatedFlag ==
  \A c \in CallIds :
    (calls[c].op \in PagedOps /\ Returned(c)) =>
      calls[c].result.truncated
        = (calls[c].offset + Len(calls[c].result.rows) < calls[c].result.totalRows)

\* a relational preview with limit 0 inside the table, and so truncated
C6_Witness ==
  \E c \in CallIds :
    /\ calls[c].op = "previewSqliteTable"
    /\ Returned(c)
    /\ calls[c].limit = 0
    /\ calls[c].offset < calls[c].result.totalRows
    /\ calls[c].result.truncated

\* C7: previewSqliteTable on a table of N rows returns the rows at positions
\* offset+1 .. min(offset+limit, N) in scan order and totalRows = N; for
\* N = 5, limit = 2, offset = 2: rows 3 and 4, totalRows 5, truncated.
C7_PreviewWindow ==
  \A c \in CallIds :
    (calls[c].op = "previewSqliteTable" /\ calls[c].tableName = NameT /\ Returned(c)) =>
      LET n == nrows
          k == Max(0, Min(calls[c].limit, n - calls[c].offset))
      IN  /\ calls[c].result.totalRows = n
          /\ calls[c].result.rows = [i \in 1..k |-> SqliteRow(calls[c].offset + i)]
          /\ (n = 5 /\ calls[c].limit = 2 /\ calls[c].offset = 2) =>
               /\ calls[c].result.rows = <<SqliteRow(3), SqliteRow(4)>>
               /\ calls[c].result.totalRows = 5
               /\ calls[c].result.truncated

C7_Witness ==
  \E c \in CallIds :
    /\ calls[c].op = "previewSqliteTable"
    /\ calls[c].tableName = NameT
    /\ Returned(c)
    /\ nrows = 5 /\ calls[c].limit = 2 /\ calls[c].offset = 2

\* the sessions call c opened, and the positions of the events of a session
Opened(c) ==
  {calls[c].trace[i].db : i \in {j \in 1..Len(calls[c].trace) : calls[c].trace[j].e = "open"}}

EventsOf(c, db, e) ==
  {i \in 1..Len(calls[c].trace) : calls[c].trace[i].db = db /\ calls[c].trace[i].e = e}

\* session db of call c was closed once, after all its statements
ClosedOnce(c, db) ==
  /\ Cardinality(EventsOf(c, db, "close")) = 1
  /\ db \notin open
  /\ \A i \in EventsOf(c, db, "prepare") \cup EventsOf(c, db, "open") :
       \A j \in EventsOf(c, db, "close") : i < j

\* C8: every session a relational-reader operation opens is closed exactly
\* once before the call returns or throws, on every exit path.
C8_RelationalSessionsClosed ==
  \A c \in CallIds :
    (calls[c].op \in RelationalOps /\ Done(c)) =>
      \A db \in Opened(c) : ClosedOnce(c, db)

\* an engine error thrown inside the loop of getSqliteSchema, two sessions
C8_Witness ==
  \E c \in CallIds :
    /\ calls[c].op = "getSqliteSchema"
    /\ Threw(c)
    /\ calls[c].error = EngineError
    /\ Cardinality(Opened(c)) = 2
    /\ \E i \in 1..Len(calls[c].trace) : calls[c].trace[i].kind = "table_info"

\* C9: every session an analytics operation opens is closed on every exit
\* path and never closed twice; until the call ends it stays open.
C9_AnalyticsSessionsClosed ==
  \A c \in CallIds :
    calls[c].op \in AnalyticsOps =>
      \A db \in Opened(c) :
        /\ Cardinality(EventsOf(c, db, "close")) <= 1
        /\ Done(c) => ClosedOnce(c, db)
        /\ ~Done(c) => db \in open /\ EventsOf(c, db, "close") = {}

\* the user's SQL failed after the view was created
C9_Witness ==
  \E c \in CallIds :
    /\ calls[c].op = "queryDataFile"
    /\ Threw(c)
    /\ calls[c].filePath = <<"b", ".", "x", "l", "s", "x">>
    /\ UserStatements(c) # {}
    /\ \A db \in Opened(c) : ClosedOnce(c, db)

\* C10 as stated: when validation fails in querySqlite, the error is raised
\* before any engine session has been opened.
C10_AsStated ==
  \A c \in CallIds :
    \A i \in 1..Len(calls[c].trace) :
      (calls[c].trace[i].e = "validate" /\ calls[c].trace[i].kind # NoError) =>
        \A j \in 1..(i - 1) : calls[c].trace[j].e # "open"

\* the sessions that appear in the events of call c
SessionsOf(c) ==
  {calls[c].trace[i].db :
     i \in {j \in 1..Len(calls[c].trace) : calls[c].trace[j].e \in {"open", "prepare", "close"}}}

\* C11: under every interleaving of concurrent calls, each statement runs on
\* a session its own call opened and has not yet closed, no session appears
\* in two calls, every open session belongs to a call still running, and
\* once all calls have completed no session is open.
C11_SessionsStayInTheirCall ==
  /\ \A c \in CallIds :
       \A i \in 1..Len(calls[c].trace) :
         calls[c].trace[i].e = "prepare" =>
           /\ \E j \in 1..(i - 1) : calls[c].trace[j] = OpenEvent(calls[c].trace[i].db)
           /\ \A j \in 1..(i - 1) : calls[c].trace[j] # CloseEvent(calls[c].trace[i].db)
  /\ \A c \in CallIds : SessionsOf(c) = Opened(c)
  /\ \A c, d \in CallIds : c # d => SessionsOf(c) \cap SessionsOf(d) = {}
  /\ \A db \in open : \E c \in CallIds : ~Done(c) /\ db \in Opened(c)
  /\ (\A c \in CallIds : Done(c) \/ Idle(c)) => open = {}

\* two analytics calls in flight at once, each with statements run on its own
\* open session
C11_Witness ==
  /\ Cardinality(open) = 2
  /\ \A c \in CallIds :
       /\ calls[c].op \in AnalyticsOps
       /\ ~Done(c)
       /\ \E i \in 1..Len(calls[c].trace) : calls[c].trace[i].e = "prepare"

\* a call made through parseDataFile or queryDataFile of index.ts
Dispatched(c) == calls[c].caller \in {"parseDataFile", "queryDataFile"}

\* the last segment of a path, trailing separators apart
RECURSIVE LastSegment(_)
LastSegment(path) ==
  IF path = <<>> THEN <<>>
  ELSE IF path[Len(path)] = "/" THEN LastSegment(SubSeq(path, 1, Len(path) - 1))
  ELSE IF \E i \in 1..Len(path) : path[i] = "/"
    THEN LastSegment(Tail(path))
  ELSE path

\* the last segment of the path is a non-empty stem followed by ext, in any case
HasExtension(path, ext) ==
  LET segment == LastSegment(path)
  IN  /\ Len(segment) > Len(ext)
      /\ toLowerCase(SubSeq(segment, Len(segment) - Len(ext) + 1, Len(segment))) = ext

ExtensionTable ==
  { <<<<".", "c", "s", "v">>, "csv">>, <<<<".", "t", "s", "v">>, "csv">>, <<<<".", "j", "s", "o", "n">>, "json">>, <<<<".", "j", "s", "o", "n", "l">>, "json">>,
    <<<<".", "d", "b">>, "sqlite">>, <<<<".", "s", "q", "l", "i", "t", "e">>, "sqlite">>, <<<<".", "s", "q", "l", "i", "t", "e", "3">>, "sqlite">>,
    <<<<".", "p", "a", "r", "q", "u", "e", "t">>, "parquet">>, <<<<".", "p", "q">>, "parquet">>, <<<<".", "x", "l", "s", "x">>, "excel">>,
    <<<<".", "x", "l", "s">>, "excel">>, <<<<".", "a", "r", "r", "o", "w">>, "arrow">>, <<<<".", "f", "e", "a", "t", "h", "e", "r">>, "arrow">>,
    <<<<".", "i", "p", "c">>, "arrow">> }

\* C12: detectFileType returns exactly one of the seven formats for every
\* path, the one the fixed table gives for the lower-cased extension of the
\* path, and unknown for a path whose extension is not in the table.
C12_DetectFileType ==
  \A c \in CallIds :
    Dispatched(c) =>
      /\ calls[c].fileType \in
           {"csv", "json", "sqlite", "parquet", "excel", "arrow", "unknown"}
      /\ \A entry \in ExtensionTable :
           HasExtension(calls[c].filePath, entry[1]) => calls[c].fileType = entry[2]
      /\ (\A entry \in ExtensionTable : ~HasExtension(calls[c].filePath, entry[1]))
           => calls[c].fileType = "unknown"

\* an upper-case extension below a dotted directory
C12_Witness ==
  \E c \in CallIds :
    /\ Dispatched(c)
    /\ calls[c].filePath = <<"a", ".", "b", "/", "f", ".", "C", "S", "V">>
    /\ calls[c].fileType = "csv"

\* C13: for every path detected as unknown, parseDataFile and queryDataFile
\* of the dispatcher throw an unsupported-format error and no session is
\* opened for the call.
C13_UnknownRejected ==
  \A c \in CallIds :
    (Dispatched(c) /\ calls[c].fileType = "unknown") =>
      /\ Threw(c)
      /\ calls[c].error = UnsupportedError
      /\ calls[c].trace = <<>>
      /\ open = {}

\* queryDataFile of the dispatcher on a path of an unknown extension
C13_Witness ==
  \E c \in CallIds :
    /\ calls[c].caller = "queryDataFile"
    /\ calls[c].op = "queryDataFile"
    /\ calls[c].fileType = "unknown"
    /\ calls[c].filePath = <<"a", ".", "b", "/", "f", ".", "t", "x", "t">>
    /\ Threw(c)

\* C14 as stated: for a path with the extension .xls, parseDataFile and
\* queryDataFile fail with an unsupported-format error on the extension
\* alone, with no analytics session opened and no read expression evaluated.
C14_AsStated ==
  \A c \in CallIds :
    (Dispatched(c) /\ toLowerCase(extname(calls[c].filePath)) = <<".", "x", "l", "s">>) =>
      /\ Threw(c)
      /\ calls[c].error = UnsupportedError
      /\ calls[c].trace = <<>>

SheetCalls == {c \in CallIds : calls[c].op = "listExcelSheets" /\ Done(c)}

\* C15 as stated: for a path with the extension .xls, listExcelSheets
\* rejects with an unsupported-format error, unlike the empty list of a
\* workbook without sheets, and never reads the file.
C15_AsStated ==
  \A c \in SheetCalls :
    toLowerCase(extname(calls[c].filePath)) = <<".", "x", "l", "s">> =>
      /\ Threw(c)
      /\ calls[c].error = UnsupportedError
      /\ calls[c].trace = <<>>

\* C16: for every byte buffer listExcelSheets returns a list and never
\* throws; the list is empty for a buffer without the signature, a header or
\* file name cut by the end of the buffer, a chain without xl/workbook.xml,
\* a compression method other than 0 and 8, a failed decompression and a
\* workbook XML without a sheet tag.
C16_NeverThrows ==
  \A c \in SheetCalls :
    /\ Returned(c)
    /\ calls[c].zip.kind \in DamagedKinds => calls[c].list = <<>>

\* a header cut by the end of the buffer: the read beyond the end throws
\* inside the extractor
C16_Witness ==
  \E c \in SheetCalls :
    /\ calls[c].zip.kind = "cut_header"
    /\ extractSheetNamesFromXlsx(calls[c].buffer).threw
    /\ Returned(c)
    /\ calls[c].list = <<>>

\* the elements of an XML text: the texts that end at each ">"
RECURSIVE Elements(_)
Elements(xml) ==
  LET end == FirstIndex({i \in 1..Len(xml) : xml[i] = ">"})
  IN  IF end = 0 THEN <<>>
      ELSE <<SubSeq(xml, 1, end)>> \o Elements(SubSeq(xml, end + 1, Len(xml)))

\* the value of the attribute name of an element: the text between the
\* quote that opens it and the next quote of the same kind
NameAttribute(element) ==
  LET start == FirstIndex({k \in 2..Len(element) :
                 /\ IsWhite(element[k - 1])
                 /\ matchAt(element, k, <<"n", "a", "m", "e", "=">>)
                 /\ k + 5 <= Len(element)
                 /\ IsQuote(element[k + 5])})
      end == FirstIndex({q \in (start + 6)..Len(element) : element[q] = element[start + 5]})
  IN  IF start = 0 \/ end = 0 THEN [found |-> FALSE, value |-> <<>>]
      ELSE [found |-> TRUE, value |-> SubSeq(element, start + 6, end - 1)]

\* the name attribute values of the sheet elements, in document order
ExpectedSheetNames(xml) ==
  LET elements == Elements(xml)
      sheets == {i \in 1..Len(elements) :
                  /\ Len(elements[i]) > 6
                  /\ SubSeq(elements[i], 1, 6) = <<"<", "s", "h", "e", "e", "t">>
                  /\ IsWhite(elements[i][7])
                  /\ NameAttribute(elements[i]).found}
      pick[i \in 0..Len(elements)] ==
        IF i = 0 THEN <<>>
        ELSE IF i \in sheets THEN pick[i - 1] \o <<NameAttribute(elements[i]).value>>
        ELSE pick[i - 1]
  IN  pick[Len(elements)]

\* C17 as stated: for an archive whose header chain reaches a stored entry
\* xl/workbook.xml, at any place in the chain, the extractor returns the
\* name attribute values of the sheet tags of the payload in document order.
C17_AsStated ==
  \A c \in SheetCalls :
    (calls[c].zip.kind = "workbook" /\ calls[c].zip.method = 0) =>
      calls[c].list = ExpectedSheetNames(calls[c].zip.xml)

\* C18: for every workbook XML, the list extracted from the archive with
\* xl/workbook.xml deflated equals the list extracted from the archive that
\* holds the same XML stored.
C18_MethodIndependent ==
  \A c \in SheetCalls :
    (calls[c].zip.kind \in {"workbook", "no_sheet_tag"} /\ calls[c].zip.method = 8) =>
      calls[c].list =
        catchReturnEmpty(extractSheetNamesFromXlsx(
          ZipArchive(0, calls[c].zip.layout, calls[c].zip.xml))).list

\* the deflated workbook behind two other entries gives A and B
C18_Witness ==
  \E c \in SheetCalls :
    /\ calls[c].zip.kind = "workbook"
    /\ calls[c].zip.method = 8
    /\ calls[c].zip.layout = 3
    /\ calls[c].list = << <<"A">>, <<"B">> >>

\* the keywords of the numeric, boolean, temporal, textual and binary types
NativeTypeKeywords ==
  { <<"I", "N", "T">>, <<"R", "E", "A", "L">>, <<"F", "L", "O", "A", "T">>, <<"D", "O", "U", "B", "L", "E">>, <<"N", "U", "M", "E", "R", "I", "C">>, <<"D", "E", "C", "I", "M", "A", "L">>, <<"B", "O", "O", "L">>, <<"D", "A", "T", "E">>,
    <<"T", "I", "M", "E">>, <<"T", "E", "X", "T">>, <<"C", "H", "A", "R">>, <<"C", "L", "O", "B">>, <<"B", "L", "O", "B">> }

\* calls that returned the columns of the file from its declared types
SchemaCalls ==
  {c \in CallIds :
     /\ calls[c].op \in {"previewSqliteTable", "parseDuckDBFile", "getDuckDBColumns"}
     /\ Returned(c)}

\* C19 as stated: both mappers give mixed for a native type that contains
\* none of the keywords, so UUID gives mixed, while BIGINT gives number and
\* VARCHAR(255) gives string.
C19_AsStated ==
  \A c \in SchemaCalls :
    LET type == calls[c].result.columns[1].type
    IN  /\ (\A k \in NativeTypeKeywords : ~includes(toUpperCase(declared), k))
             => type = "mixed"
        /\ declared = <<"B", "I", "G", "I", "N", "T">> => type = "number"
        /\ declared = <<"V", "A", "R", "C", "H", "A", "R", "(", "2", "5", "5", ")">> => type = "string"

\* the rows the engine gives for the statement call c executed
EngineRows(c) ==
  IF calls[c].op = "querySqlite" THEN SqliteExecute(ExecutedText(c)).rows
  ELSE DuckExecute(ExecutedText(c)).rows

\* C20: when the statement of an ad-hoc query returns zero rows, querySqlite
\* and queryDataFile return columns = [], rows = [], totalRows = 0,
\* truncated = false, and the session of the call is closed.
C20_EmptyResult ==
  \A c \in CallIds :
    ( /\ calls[c].op \in {"querySqlite", "queryDataFile"}
      /\ Returned(c)
      /\ UserStatements(c) # {}
      /\ EngineRows(c) = <<>> ) =>
      /\ calls[c].result =
           [columns |-> <<>>, rows |-> <<>>, totalRows |-> 0, truncated |-> FALSE]
      /\ Opened(c) # {}
      /\ \A db \in Opened(c) : ClosedOnce(c, db)

\* the view over a file of no rows, queried by queryDataFile
C20_Witness ==
  \E c \in CallIds :
    /\ calls[c].op = "queryDataFile"
    /\ Returned(c)
    /\ nrows = 0
    /\ ExecutedText(c) = <<"S", "E", "L", "E", "C", "T", " ", "*", " ", "F", "R", "O", "M", " ", "d", "a", "t", "a">>
    /\ calls[c].result.rows = <<>>
    /\ open = {}

\* C21 as stated: for a non-empty result of queryDataFile each column's type
\* is inferTypeFromValue of that column's value in the first returned row, so
\* a 64-bit integer that materialization turns into a number gives number.
C21_AsStated ==
  \A c \in CallIds :
    ( /\ calls[c].op = "queryDataFile"
      /\ Returned(c)
      /\ calls[c].result.rows # <<>> ) =>
      \A i \in 1..Len(calls[c].result.columns) :
        LET column == calls[c].result.columns[i]
        IN  column.type = inferTypeFromValue(calls[c].result.rows[1][column.name])

\* C22: a non-empty result of querySqlite holds the rows of the executed
\* statement, totalRows = rows.length and truncated = (rows.length >= limit),
\* also when the caller's SQL carries its own LIMIT clause.
C22_QueryCounts ==
  \A c \in CallIds :
    ( /\ calls[c].op = "querySqlite"
      /\ Returned(c)
      /\ calls[c].result.rows # <<>> ) =>
      /\ calls[c].result.rows = EngineRows(c)
      /\ calls[c].result.totalRows = Len(calls[c].result.rows)
      /\ calls[c].result.truncated = (Len(calls[c].result.rows) >= calls[c].limit)

\* a statement with its own LIMIT 3 under limit 3 on a table of three rows:
\* every row is returned and the flag is still raised
C22_Witness ==
  \E c \in CallIds :
    /\ calls[c].op = "querySqlite"
    /\ Returned(c)
    /\ calls[c].sql = <<"S", "E", "L", "E", "C", "T", " ", "*", " ", "F", "R", "O", "M", " ", "t", " ", "L", "I", "M", "I", "T", " ", "3">>
    /\ calls[c].limit = 3
    /\ nrows = 3
    /\ Len(calls[c].result.rows) = 3
    /\ calls[c].result.totalRows = 3
    /\ calls[c].result.truncated

\* the operations that open an analytics session on a file path
ExtensionOps == {"parseDuckDBFile", "getDuckDBRowCount", "getDuckDBColumns", "queryDataFile"}

\* the statements that name the read expression
ReadKinds == {"describe", "count", "select_page", "create_view"}

\* the positions in the trace of call c of the statements of the kinds
StatementsOf(c, kinds) ==
  {i \in 1..Len(calls[c].trace) :
     calls[c].trace[i].e = "prepare" /\ calls[c].trace[i].kind \in kinds}

\* C23: in a session opened for an Excel file INSTALL and then LOAD are
\* issued, in that order and in that session, before any statement that
\* references the read expression; when INSTALL or LOAD fails no statement
\* references the read expression; for other files neither is issued.
C23_ExtensionsFirst ==
  \A c \in CallIds :
    calls[c].op \in ExtensionOps =>
      LET tr == calls[c].trace
          installs == StatementsOf(c, {"install"})
          loads == StatementsOf(c, {"load"})
          reads == StatementsOf(c, ReadKinds)
          all == StatementsOf(c, {"install", "load", "user_sql"} \cup ReadKinds)
      IN  IF getDuckDBFileType(calls[c].filePath) = "excel"
            THEN /\ \A j \in reads :
                      \E i \in installs, k \in loads :
                        /\ i < k /\ k < j
                        /\ tr[i].db = tr[j].db /\ tr[k].db = tr[j].db
                 /\ \A k \in loads : \E i \in installs : i < k /\ tr[i].db = tr[k].db
                 /\ Cardinality(installs) <= 1 /\ Cardinality(loads) <= 1
                 /\ ( /\ Threw(c)
                      /\ all # {}
                      /\ tr[CHOOSE m \in all : \A n \in all : n <= m].kind
                           \in {"install", "load"} ) => reads = {}
            ELSE installs \cup loads = {}

\* an ad-hoc query on a workbook that ran to its end
C23_Witness ==
  \E c \in CallIds :
    /\ calls[c].op = "queryDataFile"
    /\ calls[c].filePath = <<"b", ".", "x", "l", "s", "x">>
    /\ Returned(c)
    /\ [i \in 1..Len(calls[c].trace) |-> calls[c].trace[i].kind]
         = <<"", "install", "load", "create_view", "user_sql", "">>

\* the positions of the events e in the trace of call c
TraceEvents(c, e) == {i \in 1..Len(calls[c].trace) : calls[c].trace[i].e = e}

\* C24: queryDataFile of the dispatcher routes a Sqlite file to querySqlite,
\* where validateSqlQuery and the LIMIT safety net are applied, and routes
\* Csv, Json, Parquet, Excel and Arrow files to the analytics reader, where
\* the caller's SQL is executed verbatim, without the keyword blocklist, and
\* only after the view named data was created over the read expression.
C24_QueryRouting ==
  \A c \in CallIds :
    calls[c].caller = "queryDataFile" =>
      LET tr == calls[c].trace
          sql == calls[c].sql
      IN  /\ calls[c].fileType = "sqlite" =>
               /\ calls[c].op = "querySqlite"
               /\ StatementsOf(c, ReadKinds) = {}
               /\ \A j \in UserStatements(c) :
                    /\ validateSqlQuery(sql) = NoError
                    /\ tr[j].text = ensureLimit(sql, DefaultLimit)
                    /\ \E i \in TraceEvents(c, "validate") : i < j /\ tr[i].text = sql
               /\ (validateSqlQuery(sql) # NoError /\ Opened(c) # {}) =>
                    Threw(c) /\ calls[c].error = validateSqlQuery(sql)
          /\ calls[c].fileType \in {"csv", "json", "parquet", "excel", "arrow"} =>
               /\ calls[c].op = "queryDataFile"
               /\ TraceEvents(c, "validate") = {}
               /\ \A j \in UserStatements(c) :
                    /\ tr[j].text = sql
                    /\ \E i \in StatementsOf(c, {"create_view"}) :
                         /\ i < j
                         /\ tr[i].db = tr[j].db
                         /\ tr[i].text = <<"CREATE VIEW data AS SELECT * FROM ", calls[c].readFn>>
                         /\ calls[c].readFn = queryReadFunction(calls[c].filePath)

\* a DROP statement handed to the engine for a csv file, behind the view
C24_Witness ==
  \E c \in CallIds :
    /\ calls[c].caller = "queryDataFile"
    /\ calls[c].fileType = "csv"
    /\ calls[c].sql = <<"D", "R", "O", "P", " ", "T", "A", "B", "L", "E", " ", "x">>
    /\ \E j \in UserStatements(c) :
         /\ calls[c].trace[j].text = <<"D", "R", "O", "P", " ", "T", "A", "B", "L", "E", " ", "x">>
         /\ calls[c].trace[j - 1].kind = "create_view"

\* a statement of a Sqlite file that went through the check and the safety net
C24_WitnessRelational ==
  \E c \in CallIds :
    /\ calls[c].caller = "queryDataFile"
    /\ calls[c].fileType = "sqlite"
    /\ Returned(c)
    /\ calls[c].sql = <<"S", "E", "L", "E", "C", "T", " ", "*", " ", "F", "R", "O", "M", " ", "t">>
    /\ ExecutedText(c) = <<"S", "E", "L", "E", "C", "T", " ", "*", " ", "F", "R", "O", "M", " ", "t", " ", "L", "I", "M", "I", "T", " ", "1", "0", "0", "0">>

(***************************************************************************)
(* Files of many catalogs: the listing and the validation of table names.  *)
(***************************************************************************)
NameLookalike == <<"s", "q", "l", "i", "t", "e", "d", "a", "t", "a">>
NameBare == <<"s", "q", "l", "i", "t", "e">>

\* the objects a file may hold: user tables, among them two whose names start
\* with the letters sqlite, the system table sqlite_sequence and a view
CatalogObjects ==
  { [type |-> "table", name |-> NameT],
    [type |-> "table", name |-> NameLimits],
    [type |-> "table", name |-> NameLookalike],
    [type |-> "table", name |-> NameBare],
    [type |-> "table", name |-> NameSequence],
    [type |-> "view", name |-> NameView] }

CatalogNames == {e.name : e \in CatalogObjects} \cup {NameMissing}

InitCatalog ==
  /\ catalog \in SUBSET CatalogObjects
  /\ declared = DefaultDeclared
  /\ nrows = 1
  /\ calls = [c \in CallIds |-> IdleCall]
  /\ open = {}
  /\ FilesStart

NextCatalog ==
  \/ \E c \in CallIds, fail \in {"none", "list"} : listSqliteTables(c, fail)
  \/ \E c \in CallIds, tableName \in CatalogNames, fail \in {"none", "lookup"} :
       previewSqliteTable(c, tableName, 1, 0, fail)

SpecCatalog == InitCatalog /\ [][NextCatalog]_vars

\* the names of a list
Names(list) == {list[i] : i \in 1..Len(list)}

SystemPrefix == <<"s", "q", "l", "i", "t", "e", "_">>

\* C25 as stated: listSqliteTables returns exactly the catalog entries of type
\* table whose name does not begin with sqlite_, each once, in ascending
\* order; a table named sqlite followed by another character is listed.
C25_AsStated ==
  \A c \in CallIds :
    (calls[c].op = "listSqliteTables" /\ Returned(c)) =>
      LET list == calls[c].list
      IN  /\ Names(list) =
               {e.name : e \in {x \in catalog :
                                  x.type = "table" /\ ~startsWith(x.name, SystemPrefix)}}
          /\ \A i, j \in 1..Len(list) : i < j => TextLess(list[i], list[j])

\* a <sheet ...> opening tag that carries a name attribute
NamedSheetTag(element) ==
  /\ Len(element) > 6
  /\ SubSeq(element, 1, 6) = <<"<", "s", "h", "e", "e", "t">>
  /\ IsWhite(element[7])
  /\ NameAttribute(element).found

\* C26 as stated: for each <sheet ...> tag of the workbook XML the extractor
\* collects the complete value of the name attribute, delimited by double or
\* by single quotes and wherever it stands in the tag; a double-quoted value
\* that contains an apostrophe is collected whole, and a tag without a name
\* attribute contributes nothing.
C26_AsStated ==
  \A c \in SheetCalls :
    calls[c].zip.kind = "workbook" =>
      LET named == SelectSeq(Elements(calls[c].zip.xml), NamedSheetTag)
      IN  /\ Len(calls[c].list) = Len(named)
          /\ \A i \in 1..Len(named) :
               i <= Len(calls[c].list) =>
                 calls[c].list[i] = NameAttribute(named[i]).value

(***************************************************************************)
(* The local-file-header scan of extractSheetNamesFromXlsx, one iteration  *)
(* of its while loop per step; the field offset of the call is the local   *)
(* variable offset of the loop.                                            *)
(***************************************************************************)
\* an end of entry that forgets where the data starts
entryEndNoBase(dataStart, compressedSize) == compressedSize

\* const dataEnd = dataStart + compressedSize
entryEnd(dataStart, compressedSize) == dataStart + compressedSize

\* one pass through the loop at offset: the loop is left with a result, or
\* goes on at the end of the entry
scanIteration(buffer, offset) ==
  IF ~(offset < Len(buffer) - 4) THEN [leave |-> TRUE, offset |-> offset, result |-> Extracted(<<>>)]
  ELSE IF readUInt32LE(buffer, offset) # LocalFileHeaderSignature
    THEN [leave |-> TRUE, offset |-> offset, result |-> Extracted(<<>>)]
  ELSE IF ~InRange(buffer, offset + 8, 22)
    THEN [leave |-> TRUE, offset |-> offset, result |-> [threw |-> TRUE, sheets |-> <<>>]]
  ELSE LET compressionMethod == readUInt16LE(buffer, offset + 8)
           compressedSize == readUInt32LE(buffer, offset + 18)
           fileNameLength == readUInt16LE(buffer, offset + 26)
           extraFieldLength == readUInt16LE(buffer, offset + 28)
           fileName == bufferToString(buffer, offset + 30, offset + 30 + fileNameLength)
           dataStart == offset + 30 + fileNameLength + extraFieldLength
           dataEnd == entryEnd(dataStart, compressedSize)
           decompressed == inflateRaw(subarray(buffer, dataStart, dataEnd))
           sheets ==
             IF compressionMethod = 0
               THEN sheetNames(bufferToString(buffer, dataStart, dataEnd))
             ELSE IF compressionMethod = 8 /\ decompressed.ok
               THEN sheetNames(bufferToString(decompressed.bytes, 0, Len(decompressed.bytes)))
             ELSE <<>>
       IN  IF fileName # WorkbookEntryName
             THEN [leave |-> FALSE, offset |-> dataEnd, result |-> Extracted(<<>>)]
             ELSE [leave |-> TRUE, offset |-> offset, result |-> Extracted(sheets)]

\* await readFile(filePath); let offset = 0
readFileBuffer(c, file) ==
  /\ calls[c].pc = "readFile"
  /\ Advance(c, IF file.recipe.kind = "unreadable"
                  THEN [calls[c] EXCEPT !.pc = "returned", !.zip = file.recipe,
                                        !.trace = <<ReadEvent>>]
                  ELSE [calls[c] EXCEPT !.pc = "scan", !.zip = file.recipe,
                                        !.buffer = file.buffer, !.offset = 0,
                                        !.trace = <<ReadEvent>>])

\* one iteration of while (offset < buffer.length - 4); on leaving the loop the
\* call returns the sheets, or [] from the catch block of listExcelSheets
scanStep(c) ==
  /\ calls[c].pc = "scan"
  /\ LET step == scanIteration(calls[c].buffer, calls[c].offset)
     IN  Advance(c, IF step.leave
                      THEN [calls[c] EXCEPT !.pc = "returned",
                                            !.list = catchReturnEmpty(step.result).list]
                      ELSE [calls[c] EXCEPT !.offset = step.offset])

\* a local file header of an entry without name, extra field and data
BareHeader == LocalFileEntry(0, <<>>, 0, <<>>, <<>>)

\* chains of headers that carry nothing, whole and cut
HeaderChainFiles ==
  { File("header_chain", 0, 0, <<>>, buffer) :
      buffer \in { BareHeader \o BareHeader \o BareHeader,
                    BareHeader \o BareHeader \o <<80, 75, 3, 4>>,
                    BareHeader \o StylesEntry \o BareHeader \o <<80, 75, 3, 4, 20>>,
                    LocalFileEntry(0, <<>>, 0, <<>>, BareHeader) \o BareHeader } }

ScanFiles == ZipFiles \cup HeaderChainFiles

InitScan == InitZip

NextScan ==
  \/ \E c \in SingleCaller, filePath \in SheetPaths : listExcelSheets(c, filePath)
  \/ \E c \in SingleCaller, file \in ScanFiles : readFileBuffer(c, file)
  \/ \E c \in SingleCaller : scanStep(c)

\* the scan is a loop without awaits between its iterations (the one await,
\* of the decompression, settles), so a started iteration is carried out:
\* weak fairness of scanStep, WF_vars(scanStep(c)), written out with the
\* guard pc = "scan" in the place of ENABLED <<scanStep(c)>>_vars
SpecScan ==
  /\ InitScan /\ [][NextScan]_vars
  /\ \A c \in SingleCaller :
       []<>(calls[c].pc # "scan") \/ []<><<scanStep(c)>>_vars

\* C27: the scan terminates for every byte buffer: each iteration leaves the
\* loop or moves the offset forward by at least the 30 bytes of the fixed
\* header, and every scan that was started comes to its end.
C27_ScanTerminates ==
  /\ [][\A c \in CallIds :
          calls[c].pc = "scan" =>
            \/ calls'[c].pc = "returned"
            \/ calls'[c].pc = "scan" /\ calls'[c].offset >= calls[c].offset + 30]_vars
  /\ \A c \in CallIds : (calls[c].pc = "scan") ~> Done(c)

\* the scan stepped over two entries and left the loop behind the buffer's end
C27_Witness ==
  \E c \in CallIds :
    /\ calls[c].op = "listExcelSheets"
    /\ calls[c].zip.kind = "header_chain"
    /\ Returned(c)
    /\ calls[c].offset >= 60
    /\ calls[c].offset >= Len(calls[c].buffer) - 4

\* the scan in steps gives the list the scan in one piece gives
ScanAgrees ==
  \A c \in CallIds :
    (calls[c].op = "listExcelSheets" /\ Returned(c) /\ calls[c].zip.kind # "none") =>
      calls[c].list =
        (IF calls[c].zip.kind = "unreadable" THEN <<>>
         ELSE catchReturnEmpty(extractSheetNamesFromXlsx(calls[c].buffer)).list)

\* C28 as stated: for every file a table name is accepted by
\* previewSqliteTable (passes validateTableName) if and only if
\* listSqliteTables returns it, so no table hidden from the listing, such as
\* sqlite_sequence, can be previewed by name.
C28_AsStated ==
  \A c1, c2 \in CallIds :
    ( /\ calls[c1].op = "listSqliteTables" /\ Returned(c1)
      /\ calls[c2].op = "previewSqliteTable" /\ Done(c2) /\ calls[c2].fail = "none" ) =>
      (Returned(c2) <=> calls[c2].tableName \in Names(calls[c1].list))

(***************************************************************************)
(* agents.ts: the files router.  activeWatchers, debounceTimers and        *)
(* fileListCache are the maps of the module; a watcher is the FSWatcher    *)
(* object watch() returned, by its number; a listing is the version of the *)
(* directory the scan read; invalidated is the version the directory had   *)
(* when the debounced handler last ran.                                    *)
(***************************************************************************)
CACHE_TTL == 1000
DEBOUNCE_MS == 100

\* startWatching: ok tells whether watch() returns a watcher or throws;
\* registered is the watcher whose refCount stands for the caller, 0 for none
startWatching(projectPath, ok) ==
  LET existing == activeWatchers[projectPath]
      watcher == CHOOSE w \in SubIds :
                   watchers[w] = "unused" /\ \A v \in SubIds : watchers[v] = "unused" => w <= v
  IN  IF existing # NoWatcher
        THEN [activeWatchers |-> [activeWatchers EXCEPT ![projectPath].refCount = @ + 1],
              watchers |-> watchers, registered |-> existing.watcher]
      ELSE IF ok
        THEN [activeWatchers |->
                [activeWatchers EXCEPT ![projectPath] = [watcher |-> watcher, refCount |-> 1]],
              watchers |-> [watchers EXCEPT ![watcher] = "open"], registered |-> watcher]
      ELSE [activeWatchers |-> activeWatchers, watchers |-> watchers, registered |-> 0]

\* stopWatching
stopWatching(projectPath) ==
  LET existing == activeWatchers[projectPath]
  IN  IF existing = NoWatcher
        THEN [activeWatchers |-> activeWatchers, watchers |-> watchers,
              debounceTimers |-> debounceTimers]
      ELSE IF existing.refCount - 1 <= 0
        THEN [activeWatchers |-> [activeWatchers EXCEPT ![projectPath] = NoWatcher],
              watchers |-> [watchers EXCEPT ![existing.watcher] = "closed"],
              debounceTimers |-> [debounceTimers EXCEPT ![projectPath] = Absent]]
      ELSE [activeWatchers |-> [activeWatchers EXCEPT ![projectPath].refCount = @ - 1],
            watchers |-> watchers, debounceTimers |-> debounceTimers]

\* a subscription to watchChanges: the function handed to observable
watchChanges(s, projectPath, ok) ==
  /\ subscriptions[s].state = "none"
  /\ IF projectPath = ""
       THEN /\ subscriptions' = [subscriptions EXCEPT ![s].state = "complete"]
            /\ UNCHANGED <<activeWatchers, watchers>>
       ELSE LET started == startWatching(projectPath, ok)
            IN  /\ activeWatchers' = started.activeWatchers
                /\ watchers' = started.watchers
                /\ subscriptions' =
                     [subscriptions EXCEPT ![s] = [state |-> "live", projectPath |-> projectPath,
                                                   watcher |-> started.registered]]
  /\ UNCHANGED <<debounceTimers, fileListCache, lists, disk, clock, invalidated, parserVars>>

\* the end of a subscription: the cleanup function watchChanges returned
unsubscribe(s) ==
  /\ subscriptions[s].state \in {"live", "complete"}
  /\ subscriptions' = [subscriptions EXCEPT ![s].state = "ended"]
  /\ IF subscriptions[s].state = "complete"
       THEN UNCHANGED <<activeWatchers, watchers, debounceTimers>>
       ELSE LET stopped == stopWatching(subscriptions[s].projectPath)
            IN  /\ activeWatchers' = stopped.activeWatchers
                /\ watchers' = stopped.watchers
                /\ debounceTimers' = stopped.debounceTimers
  /\ UNCHANGED <<fileListCache, lists, disk, clock, invalidated, parserVars>>

\* a file of the directory changes; the callback of an open watcher clears
\* the pending timer and sets a new one
fileChanged(projectPath) ==
  /\ disk[projectPath] < MaxChanges
  /\ disk' = [disk EXCEPT ![projectPath] = @ + 1]
  /\ debounceTimers' =
       IF activeWatchers[projectPath] # NoWatcher
         THEN [debounceTimers EXCEPT ![projectPath] = {clock + DEBOUNCE_MS}]
         ELSE debounceTimers
  /\ UNCHANGED <<activeWatchers, watchers, fileListCache, subscriptions, lists, clock,
                 invalidated, parserVars>>

\* the debounced handler: the timer is dropped, the cache entry deleted and
\* the change event emitted
debounceFires(projectPath) ==
  /\ debounceTimers[projectPath] # Absent
  /\ clock >= Get(debounceTimers, projectPath)
  /\ debounceTimers' = [debounceTimers EXCEPT ![projectPath] = Absent]
  /\ fileListCache' = [fileListCache EXCEPT ![projectPath] = Absent]
  /\ invalidated' = [invalidated EXCEPT ![projectPath] = disk[projectPath]]
  /\ UNCHANGED <<activeWatchers, watchers, subscriptions, lists, disk, clock, parserVars>>

\* time passes
Tick ==
  /\ clock + TickMs <= MaxClock
  /\ clock' = clock + TickMs
  /\ UNCHANGED <<activeWatchers, watchers, debounceTimers, fileListCache, subscriptions, lists,
                 disk, invalidated, parserVars>>

ListStep(l, next) ==
  /\ lists' = [lists EXCEPT ![l] = next]
  /\ UNCHANGED <<activeWatchers, watchers, debounceTimers, subscriptions, disk, clock,
                 invalidated, parserVars>>

\* listAll up to await stat(projectPath)
listAll(l, projectPath) ==
  /\ lists[l].pc = "idle"
  /\ ListStep(l, IF projectPath = ""
                   THEN [lists[l] EXCEPT !.pc = "returned"]
                   ELSE [lists[l] EXCEPT !.pc = "stat", !.projectPath = projectPath,
                                         !.startedAfter = invalidated[projectPath]])
  /\ UNCHANGED fileListCache

\* the stat settles; getEntryList up to await scanDirectory(projectPath)
getEntryList(l, isDirectory) ==
  /\ lists[l].pc = "stat"
  /\ LET cached == fileListCache[lists[l].projectPath]
         now == clock
     IN  ListStep(l, IF ~isDirectory THEN [lists[l] EXCEPT !.pc = "returned"]
                     ELSE IF /\ cached # Absent
                             /\ now - Get(fileListCache, lists[l].projectPath).timestamp
                                  < CACHE_TTL
                       THEN [lists[l] EXCEPT !.pc = "returned",
                                             !.result =
                                               Get(fileListCache, lists[l].projectPath).entries,
                                             !.listed = TRUE]
                     ELSE [lists[l] EXCEPT !.pc = "scan", !.now = now])
  /\ UNCHANGED fileListCache

\* scanDirectory reads the directory
scanDirectory(l) ==
  /\ lists[l].pc = "scan"
  /\ ListStep(l, [lists[l] EXCEPT !.pc = "scanned",
                                  !.entries = disk[lists[l].projectPath]])
  /\ UNCHANGED fileListCache

\* the scan settles: fileListCache.set(projectPath, { entries, timestamp: now })
scanSettles(l) ==
  /\ lists[l].pc = "scanned"
  /\ fileListCache' = [fileListCache EXCEPT ![lists[l].projectPath] =
                         {[entries |-> lists[l].entries, timestamp |-> lists[l].now]}]
  /\ ListStep(l, [lists[l] EXCEPT !.pc = "returned", !.result = lists[l].entries,
                                  !.listed = TRUE])

PathInputs == ProjectPaths \cup {""}

InitFiles ==
  /\ catalog = {}
  /\ declared = DefaultDeclared
  /\ nrows = 0
  /\ calls = [c \in CallIds |-> IdleCall]
  /\ open = {}
  /\ FilesStart

NextWatch ==
  \/ \E s \in SubIds, projectPath \in PathInputs, ok \in BOOLEAN :
       watchChanges(s, projectPath, ok)
  \/ \E s \in SubIds : unsubscribe(s)
  \/ \E projectPath \in ProjectPaths : fileChanged(projectPath)
  \/ \E projectPath \in ProjectPaths : debounceFires(projectPath)
  \/ Tick

SpecWatch == InitFiles /\ [][NextWatch]_vars

NextCache ==
  \/ \E projectPath \in PathInputs, ok \in BOOLEAN : watchChanges(1, projectPath, ok)
  \/ unsubscribe(1)
  \/ \E projectPath \in ProjectPaths : fileChanged(projectPath)
  \/ \E projectPath \in ProjectPaths : debounceFires(projectPath)
  \/ Tick
  \/ \E l \in ListIds, projectPath \in PathInputs : listAll(l, projectPath)
  \/ \E l \in ListIds, isDirectory \in BOOLEAN : getEntryList(l, isDirectory)
  \/ \E l \in ListIds : scanDirectory(l)
  \/ \E l \in ListIds : scanSettles(l)

SpecCache == InitFiles /\ [][NextCache]_vars

\* the live subscriptions whose startWatching set or raised the refCount of
\* watcher w
Dependants(w) ==
  {s \in SubIds : subscriptions[s].state = "live" /\ subscriptions[s].watcher = w}

\* C29 as stated: whenever activeWatchers holds an entry for a path, also
\* after subscriptions whose watch() failed, its refCount is the number of
\* live subscriptions that depend on it, and the watcher is not closed while
\* a live subscription that depends on it remains.
C29_AsStated ==
  /\ \A projectPath \in ProjectPaths :
       activeWatchers[projectPath] # NoWatcher =>
         activeWatchers[projectPath].refCount =
           Cardinality(Dependants(activeWatchers[projectPath].watcher))
  /\ \A w \in SubIds : Dependants(w) # {} => watchers[w] = "open"

\* C30 as stated: a listAll that starts after the debounced handler has
\* invalidated the cache returns a listing scanned after that invalidation,
\* which holds the directory as the handler found it or newer; a scan in
\* flight at the invalidation does not write its older listing back to be
\* served.
C30_AsStated ==
  \A l \in ListIds :
    (lists[l].pc = "returned" /\ lists[l].listed) =>
      lists[l].result >= lists[l].startedAfter

====
